---- MODULE Spec2Model ----
(***************************************************************************)
(* A model of the SpicyChat analytics dashboard: the author tracker       *)
(* (core/authors_service.py, routes_authors.py) and the snapshot cycle    *)
(* (core/snapshot.py, core/api_capture.py, core/db.py).                   *)
(*                                                                         *)
(* Encoding of SQLite TEXT columns that hold timestamps: NULL is the      *)
(* empty tuple, the empty string '' is <<0>> and the ISO text of the      *)
(* instant t >= 1 is <<t>>.  Every handler runs at the instant `now`;     *)
(* Tick lets time pass between handlers.                                  *)
(*                                                                         *)
(* Columns that the code writes and never reads are left out of the rows: *)
(* author_bot_map.last_seen_at, tracked_authors.added_at and              *)
(* bot_static.fetched_at.  A row of author_bot_map is                     *)
(* [first_seen_at, seen_at]; a row of bot_static is [created_at].         *)
(***************************************************************************)
EXTENDS Integers, Sequences, FiniteSets, TLC

\* ------------------------------------------------------------------ bounds
MaxClock == 2
MaxItems == 2

\* ------------------------------------------------------------ value spaces
Authors == {"a1", "a2"}
Bots == {"b1", "b2"}
ALL_KEY == "__ALL__"
NULL == << >>
EmptyText == <<0>>
DayLen == 2

Text(t) == <<t>>
Blank(v) == v = NULL \/ v = EmptyText

VARIABLES
    tracked_authors,   \* table tracked_authors: the set of tracked author names
    author_bot_map,    \* table author_bot_map: <<author, bot_id>> -> row
    bot_static,        \* table bot_static: bot_id -> row
    now,               \* the wall clock, in instants
    bots,              \* table bots: the set of rows [date, bot_id, num_messages]
    last_snapshot,     \* metadata row 'last_snapshot': NULL or the text written
    AUTH_REQUIRED,     \* the global AUTH_REQUIRED of core/snapshot.py
    pc,                \* the position of the running take_snapshot, or "idle"
    attempt,           \* capture_payloads: the loop variable attempt
    stamp,             \* take_snapshot: the local stamp (the period)
    payload,           \* take_snapshot: the fetched list of records, until the write
    rows_clean,        \* take_snapshot: the local rows_clean (deduplicated, in order)
    txn,               \* the uncommitted content of bots seen by the open connection
    fetch,             \* how the entity fetch of the current or last cycle ended
    raised,            \* whether the last take_snapshot raised to its caller
    stages,            \* the stages the current or last cycle has performed
    failed,            \* the stages of it whose try block caught an exception
    bot_rank_history,  \* table bot_rank_history: the set of rows [date, bot_id, rank]
    core_AUTH_REQUIRED, \* the name AUTH_REQUIRED bound in the package core
    caller,            \* who called the running take_snapshot, or "none"
    timeframe,         \* the timeframe of the last dashboard request, or "none"
    dfc,               \* get_bots_data: dfc, the result of its compute_deltas call
    bots_data,         \* get_bots_data: the list bots it returned, as a set
    ms_log,            \* multi_search_request: how each attempt of the call ended
    ms_return,         \* multi_search_request: what the call returned, or "pending"
    fpc,               \* the paginated fetch that is running, or how far it got
    page,              \* the paginated fetch: the loop variable page
    hits,              \* the paginated fetch: the hits of the last page received
    ALL_RESULTS,       \* fetch_typesense_top_bots: the accepted hits, in order
    out_ids,           \* fetch_typesense_bot_ids_by_author: the list out
    requests,          \* the page requests the running fetch has issued
    returned,          \* what the finished fetch returned
    saved_maps,        \* the ts_maps saved so far for the period of stamp
    bot_tags_cache,    \* table bot_tags_cache: bot_id -> row
    bot_ratings,       \* table bot_ratings: bot_id -> row
    bot_ratings_cache, \* table bot_ratings_cache: bot_id -> row
    loaded,            \* the last read of a cache: its ids and what it returned
    upserted,          \* per cache, the value last handed to its save, by id
    threads,           \* per thread, where it is in take_snapshot, and called by whom
    given,             \* the cache and the keys of the map last given to a cache save
    static_cols,       \* table bot_static: bot_id -> the columns bot_name and greeting
                       \*   (kept under SpecStatic)
    looked_up,         \* the ids the last operation issued detail lookups for
    last_refresh,      \* the authors, polls, lookup answers and counts of the last refresh
    upstream,          \* the upstream catalogue: author -> the listing of its bot ids
    at_baseline,       \* author -> whether its baseline poll ran, and the ids upstream then
    sched,             \* snapshot_scheduler: its position, iteration and credential verdict
    sched_log,         \* snapshot_scheduler: how each finished iteration went
    credentials_valid, \* whether the saved credentials are valid now
    AUTH_CAPTURE_LOCK, \* core/auth.py: whether AUTH_CAPTURE_LOCK is held
    capture,           \* per caller of capture_auth_credentials: position and last outcome
    writers,           \* per thread, the DB write of its take_snapshot: position, rows, txn
    db                 \* the write lock of the database file, and bots before the writes

authorVars == <<tracked_authors, author_bot_map, bot_static>>
snapVars == <<bots, last_snapshot, AUTH_REQUIRED, pc, attempt, stamp, payload,
              rows_clean, txn, fetch, raised, stages, failed, bot_rank_history,
              core_AUTH_REQUIRED, caller>>
vars == <<tracked_authors, author_bot_map, bot_static, now, bots, last_snapshot,
          AUTH_REQUIRED, pc, attempt, stamp, payload, rows_clean, txn, fetch,
          raised, stages, failed, bot_rank_history, core_AUTH_REQUIRED, caller,
          timeframe, dfc, bots_data, ms_log, ms_return, fpc, page, hits, ALL_RESULTS, out_ids,
          requests, returned, saved_maps, bot_tags_cache, bot_ratings,
          bot_ratings_cache, loaded, upserted, threads, given,
          static_cols, looked_up, last_refresh, upstream, at_baseline,
          sched, sched_log, credentials_valid, AUTH_CAPTURE_LOCK, capture,
          writers, db>>
viewVars == <<timeframe, dfc, bots_data>>
searchVars == <<ms_log, ms_return>>
fetchVars == <<fpc, page, hits, ALL_RESULTS, out_ids, requests, returned, saved_maps>>
cacheVars == <<bot_tags_cache, bot_ratings, bot_ratings_cache, loaded, upserted>>
trackVars == <<static_cols, looked_up, last_refresh>>
upstreamVars == <<upstream, at_baseline>>
schedVars == <<sched, sched_log, credentials_valid>>
captureVars == <<AUTH_CAPTURE_LOCK, capture>>
writeVars == <<writers, db>>
sideVars == <<schedVars, captureVars, writeVars>>
restVars == <<trackVars, upstreamVars, sideVars>>
lateVars == <<given, restVars>>
extVars == <<searchVars, fetchVars, cacheVars, threads, lateVars>>

\* --------------------------------------------------------- pure operators

\* SELECT bot_id FROM author_bot_map WHERE author = ?
author_existing_bot_ids(m, author) ==
    {b \in Bots : <<author, b>> \in DOMAIN m}

\* INSERT ... ON CONFLICT(author, bot_id) DO UPDATE SET last_seen_at only:
\* a row that exists keeps its first_seen_at and seen_at.
\* A mutant in which the conflict clause also overwrites first_seen_at.
upsert_author_map_overwrite(m, author, bot_ids, first_seen_at, t) ==
    [k \in DOMAIN m \cup ({author} \X bot_ids) |->
        IF k[1] = author /\ k[2] \in bot_ids
        THEN IF k \in DOMAIN m
             THEN [m[k] EXCEPT !.first_seen_at = first_seen_at]
             ELSE [first_seen_at |-> first_seen_at, seen_at |-> NULL]
        ELSE m[k]]

\* A mutant whose INSERT stamps first_seen_at with the current time.
upsert_author_map_stamped(m, author, bot_ids, first_seen_at, t) ==
    [k \in DOMAIN m \cup ({author} \X bot_ids) |->
        IF k[1] = author /\ k[2] \in bot_ids
        THEN IF k \in DOMAIN m
             THEN m[k]
             ELSE [first_seen_at |-> Text(t), seen_at |-> NULL]
        ELSE m[k]]

\* A mutant that inserts with INSERT OR REPLACE: a row that exists is replaced.
upsert_author_map_replace(m, author, bot_ids, first_seen_at, t) ==
    [k \in DOMAIN m \cup ({author} \X bot_ids) |->
        IF k[1] = author /\ k[2] \in bot_ids
        THEN [first_seen_at |-> first_seen_at, seen_at |-> NULL]
        ELSE m[k]]

upsert_author_map(m, author, bot_ids, first_seen_at, t) ==
    [k \in DOMAIN m \cup ({author} \X bot_ids) |->
        IF k[1] = author /\ k[2] \in bot_ids
        THEN IF k \in DOMAIN m
             THEN m[k]
             ELSE [first_seen_at |-> first_seen_at, seen_at |-> NULL]
        ELSE m[k]]

\* The answers a detail lookup can give: a created_at text (<<0>> when the
\* upstream createdAt does not convert) for any subset of the ids asked.
DetailsResults(ids, t) ==
    UNION {[D -> {EmptyText, Text(1), Text(t)}] : D \in SUBSET ids}

fetch_typesense_bot_details_by_ids(det, bot_ids) ==
    [b \in (DOMAIN det) \cap bot_ids |-> det[b]]

\* ids missing from bot_static or stored with a blank created_at
bot_static_needs_backfill(bs, bot_ids) ==
    {b \in bot_ids : b \notin DOMAIN bs \/ Blank(bs[b].created_at)}

\* INSERT ... ON CONFLICT(bot_id) DO UPDATE SET ...,
\*   created_at = COALESCE(bot_static.created_at, excluded.created_at)
upsert_bot_static(bs, rows) ==
    [b \in DOMAIN bs \cup DOMAIN rows |->
        IF b \in DOMAIN bs
        THEN IF b \in DOMAIN rows /\ bs[b].created_at = NULL
             THEN [bs[b] EXCEPT !.created_at = rows[b]]
             ELSE bs[b]
        ELSE [created_at |-> rows[b]]]

\* The ids for which a refresh of author that polls S issues detail lookups:
\* all of S on the baseline path, the new ids otherwise.
lookup_ids(m, author, S) ==
    IF author_existing_bot_ids(m, author) = {} THEN S
    ELSE S \ author_existing_bot_ids(m, author)

\* refresh_single_author_snapshot as a function of the stores, the polled id
\* set S, the detail-lookup answer det and the instant t: the new stores and
\* the returned count.  Both detail lookups of a baseline call are answered
\* from det: with the columns modelled, a second answer det2 gives the state
\* that det extended by det2 on the ids det lacks gives.
refresh_single_result(m, bs, author, S, det, t) ==
    LET existing == author_existing_bot_ids(m, author) IN
    IF S = {} THEN [m |-> m, bs |-> bs, ret |-> 0]
    ELSE IF existing = {} THEN
        LET m1 == upsert_author_map(m, author, S, NULL, t)
            backfill_ids == bot_static_needs_backfill(bs, S)
            bs1 == upsert_bot_static(bs,
                       fetch_typesense_bot_details_by_ids(det, backfill_ids))
            bs2 == upsert_bot_static(bs1,
                       fetch_typesense_bot_details_by_ids(det, S))
        IN [m |-> m1, bs |-> bs2, ret |-> 0]
    ELSE
        LET new_ids == S \ existing
            m1 == upsert_author_map(m, author, S, NULL, t)
        IN IF new_ids = {} THEN [m |-> m1, bs |-> bs, ret |-> 0]
           ELSE
            LET m2 == upsert_author_map(m1, author, new_ids, Text(t), t)
                bs1 == upsert_bot_static(bs,
                           fetch_typesense_bot_details_by_ids(det, new_ids))
            IN [m |-> m2, bs |-> bs1, ret |-> Cardinality(new_ids)]

\* ----------------------------------------------------------------- actions

\* No cycle has run: the module globals of core/snapshot.py and an empty
\* bots table.
InitLocals ==
    /\ last_snapshot = NULL
    /\ AUTH_REQUIRED = FALSE
    /\ pc = "idle"
    /\ attempt = 0
    /\ stamp = 0
    /\ payload = << >>
    /\ rows_clean = << >>
    /\ txn = {}
    /\ fetch = "none"
    /\ raised = FALSE
    /\ stages = {}
    /\ failed = {}
    /\ core_AUTH_REQUIRED = FALSE
    /\ caller = "none"

InitCycle ==
    /\ InitLocals
    /\ bot_rank_history = {}

InitSnapshot ==
    /\ bots = {}
    /\ InitCycle

\* No dashboard request has been served.
InitView ==
    /\ timeframe = "none"
    /\ dfc = {}
    /\ bots_data = {}

\* No search call has been made.
InitSearch ==
    /\ ms_log = << >>
    /\ ms_return = "none"

\* No paginated fetch is running.
InitFetch ==
    /\ fpc = "idle"
    /\ page = 1
    /\ hits = << >>
    /\ ALL_RESULTS = << >>
    /\ out_ids = << >>
    /\ requests = 0
    /\ returned = << >>
    /\ saved_maps = << >>

\* The caches are empty and have not been read.
InitCaches ==
    /\ bot_tags_cache = << >>
    /\ bot_ratings = << >>
    /\ bot_ratings_cache = << >>
    /\ loaded = [cache |-> "none", ids |-> {}, raised |-> FALSE, out |-> << >>]
    /\ upserted = [tags |-> << >>, ratings |-> << >>]

\* The scheduler thread sleeps and no request is being served.
Threads == {"scheduler", "request"}
InitThreads ==
    threads = [th \in Threads |-> [at |-> "idle", via |-> "none"]]

\* The request threads that can call capture_auth_credentials.
Callers == {"r1", "r2", "r3"}

\* No cache save has been called, no author refresh has run, the catalogue
\* is empty, the scheduler starts its first iteration and no capture runs.
InitLate ==
    /\ given = [cache |-> "none", keys |-> {}]
    /\ static_cols = << >>
    /\ looked_up = {}
    /\ last_refresh = [authors |-> {}, polled |-> [a \in Authors |-> {}],
                       det |-> << >>, ret |-> [a \in Authors |-> 0]]
    /\ upstream = [a \in Authors |-> << >>]
    /\ at_baseline = [a \in Authors |-> [ran |-> FALSE, ids |-> {}]]
    /\ sched = [at |-> "check", iteration |-> 1, verdict |-> "none", running |-> 0]
    /\ sched_log = << >>
    /\ credentials_valid = FALSE
    /\ AUTH_CAPTURE_LOCK = FALSE
    /\ capture = [c \in Callers |-> [at |-> "idle", outcome |-> "none"]]
    /\ writers = [th \in Threads |->
                    [at |-> "idle", rows |-> << >>, i |-> 1, txn |-> {}, met |-> FALSE]]
    /\ db = [lock |-> "none", before |-> {}]

InitExt ==
    /\ InitSearch
    /\ InitFetch
    /\ InitCaches
    /\ InitThreads
    /\ InitLate

Init ==
    /\ tracked_authors = {}
    /\ author_bot_map = << >>
    /\ bot_static = << >>
    /\ now = 1
    /\ InitSnapshot
    /\ InitView
    /\ InitExt

Tick ==
    /\ now < MaxClock
    /\ now' = now + 1
    /\ UNCHANGED <<authorVars, snapVars, viewVars, extVars>>

\* POST /authors/add: the existence check (at least one id upstream),
\* add_tracked_author and the immediate refresh_single_author_snapshot of
\* the added author.
authors_add(author) ==
    \E S \in SUBSET Bots :
      \E det \in DetailsResults(lookup_ids(author_bot_map, author, S), now) :
        LET r == refresh_single_result(author_bot_map, bot_static, author, S, det, now) IN
        /\ S # {}
        /\ tracked_authors' = tracked_authors \cup {author}
        /\ author_bot_map' = r.m
        /\ bot_static' = r.bs
        /\ UNCHANGED now

\* POST /authors/remove: remove_tracked_author.
authors_remove(author) ==
    /\ tracked_authors' = tracked_authors \ {author}
    /\ author_bot_map' =
           [k \in {x \in DOMAIN author_bot_map : x[1] # author} |-> author_bot_map[k]]
    /\ UNCHANGED <<bot_static, now>>

\* get_tracked_authors: SELECT author ... ORDER BY author COLLATE NOCASE
AuthorOrder == <<"a1", "a2">>

\* The loop of authors_refresh / refresh_tracked_authors_snapshot over the
\* tracked authors from position i on; st = [m, bs, ret (total_new)].  Every call is
\* answered from the same det: a row of bot_static is written by the first
\* successful lookup of its id, so per-call answers reach the same stores.
RECURSIVE refresh_loop(_, _, _, _, _)
refresh_loop(st, i, poll, det, t) ==
    IF i > Len(AuthorOrder) THEN st
    ELSE LET a == AuthorOrder[i] IN
         IF a \notin tracked_authors THEN refresh_loop(st, i + 1, poll, det, t)
         ELSE LET r == refresh_single_result(st.m, st.bs, a, poll[a], det, t) IN
              refresh_loop([m |-> r.m, bs |-> r.bs, ret |-> st.ret + r.ret],
                           i + 1, poll, det, t)

\* POST /authors/refresh: refresh every tracked author.
authors_refresh ==
    \E poll \in [Authors -> SUBSET Bots] :
      \E det \in DetailsResults(
                UNION {lookup_ids(author_bot_map, a, poll[a]) : a \in Authors}, now) :
        LET r == refresh_loop([m |-> author_bot_map, bs |-> bot_static,
                               ret |-> 0], 1, poll, det, now) IN
        /\ tracked_authors # {}
        /\ \A a \in Authors \ tracked_authors : poll[a] = {}
        /\ author_bot_map' = r.m
        /\ bot_static' = r.bs
        /\ UNCHANGED <<tracked_authors, now>>

\* UPDATE author_bot_map SET seen_at = now WHERE bot_id = ?
\* A mutant that also clears first_seen_at of the acknowledged rows.
mark_bot_seen_clearing(m, bot_id, t) ==
    [k \in DOMAIN m |->
        IF k[2] = bot_id
        THEN [m[k] EXCEPT !.seen_at = Text(t), !.first_seen_at = NULL]
        ELSE m[k]]

mark_bot_seen(m, bot_id, t) ==
    [k \in DOMAIN m |->
        IF k[2] = bot_id THEN [m[k] EXCEPT !.seen_at = Text(t)] ELSE m[k]]

\* UPDATE author_bot_map SET seen_at = now
\*   WHERE [author = ? AND] (seen_at IS NULL OR seen_at = '')
\* (author None or blank, written "", selects the rows of every author)
mark_all_seen(m, author, t) ==
    [k \in DOMAIN m |->
        IF (author = "" \/ k[1] = author) /\ Blank(m[k].seen_at)
        THEN [m[k] EXCEPT !.seen_at = Text(t)] ELSE m[k]]

\* GET /go-bot/<bot_id>
go_bot(bot_id) ==
    /\ author_bot_map' = mark_bot_seen(author_bot_map, bot_id, now)
    /\ UNCHANGED <<tracked_authors, bot_static, now>>

\* POST /authors/mark-all-seen with the form field author = sel
authors_mark_all_seen(sel) ==
    /\ author_bot_map' =
           mark_all_seen(author_bot_map, IF sel = ALL_KEY THEN "" ELSE sel, now)
    /\ UNCHANGED <<tracked_authors, bot_static, now>>

NextAuthors ==
    \/ Tick
    \/ /\ \/ \E a \in Authors : authors_add(a)
          \/ \E a \in Authors : authors_remove(a)
          \/ authors_refresh
          \/ \E b \in Bots : go_bot(b)
          \/ \E sel \in Authors \cup {ALL_KEY} : authors_mark_all_seen(sel)
       /\ UNCHANGED <<snapVars, viewVars, extVars>>

\* --------------------------------------------------- the snapshot cycle

max_retries == 3

\* stamp = snapshot_time.strftime("%Y-%m-%d"): the day of the instant t
StampOf(t) == t \div DayLen

\* The records a fetched payload can hold.  named: the dict has one of the
\* keys flatten_items looks for; id: get_id (""  when absent); num:
\* get_num_messages (NULL when None, <<n>> otherwise); bindable: every value
\* bound by the INSERT is a scalar SQLite accepts.
PayloadItems ==
    {[named |-> FALSE, id |-> "b1", num |-> <<1>>, bindable |-> TRUE],
     [named |-> TRUE, id |-> "", num |-> <<1>>, bindable |-> TRUE],
     [named |-> TRUE, id |-> "b1", num |-> NULL, bindable |-> TRUE]}
    \cup {[named |-> TRUE, id |-> "b1", num |-> <<n>>, bindable |-> TRUE] : n \in 1..2}
    \cup {[named |-> TRUE, id |-> "b2", num |-> <<1>>, bindable |-> b] : b \in BOOLEAN}

Payloads == UNION {[1..n -> PayloadItems] : n \in 0..MaxItems}

\* What one GET of capture_payloads can meet.
Responses == {"json", "empty", "bad_json", "http_401", "http_429", "http_500",
              "network"}

IsNamed(d) == d.named

\* flatten_items over the payload: the dicts with a name-like key, in
\* traversal order.
flatten_items(pl) == SelectSeq(pl, IsNamed)

\* The loop of take_snapshot over items from position i on: skip a record
\* without num_messages or bot_id, skip a bot_id already seen, else append.
\* A mutant in which a later record of a seen bot_id replaces the kept one.
RECURSIVE clean_loop_last_wins(_, _, _, _, _)
clean_loop_last_wins(items, i, seen, out, day) ==
    IF i > Len(items) THEN out
    ELSE LET d == items[i]
             row == [date |-> day, bot_id |-> d.id, num_messages |-> d.num[1],
                     bindable |-> d.bindable]
         IN IF d.num = NULL \/ d.id = ""
            THEN clean_loop_last_wins(items, i + 1, seen, out, day)
            ELSE IF d.id \in seen
            THEN clean_loop_last_wins(items, i + 1, seen,
                     [j \in 1..Len(out) |->
                         IF out[j].bot_id = d.id THEN row ELSE out[j]], day)
            ELSE clean_loop_last_wins(items, i + 1, seen \cup {d.id},
                                      Append(out, row), day)

RECURSIVE clean_loop(_, _, _, _, _)
clean_loop(items, i, seen, out, day) ==
    IF i > Len(items) THEN out
    ELSE LET d == items[i]
             row == [date |-> day, bot_id |-> d.id, num_messages |-> d.num[1],
                     bindable |-> d.bindable]
         IN IF d.num = NULL \/ d.id = ""
            THEN clean_loop(items, i + 1, seen, out, day)
            ELSE IF d.id \in seen
            THEN clean_loop(items, i + 1, seen, out, day)
            ELSE clean_loop(items, i + 1, seen \cup {d.id}, Append(out, row), day)

\* DELETE FROM bots WHERE date = ?
\* A mutant that deletes nothing.
txn_delete_none(table, day) == table

txn_delete(table, day) == {r \in table : r.date # day}

\* The INSERT loop from position i on, inside the open transaction.  An
\* INSERT raises when a value cannot be bound or when the PRIMARY KEY
\* (date, bot_id) is already taken; ok tells whether the loop completed.
RECURSIVE txn_insert(_, _, _)
txn_insert(table, rs, i) ==
    IF i > Len(rs) THEN [table |-> table, ok |-> TRUE]
    ELSE IF ~rs[i].bindable
              \/ \E r \in table : r.date = rs[i].date /\ r.bot_id = rs[i].bot_id
         THEN [table |-> table, ok |-> FALSE]
         ELSE txn_insert(table \cup {[date |-> rs[i].date, bot_id |-> rs[i].bot_id,
                                      num_messages |-> rs[i].num_messages]},
                         rs, i + 1)

\* `with sqlite3.connect(DATABASE) as conn` left by an exception: the
\* transaction is rolled back, the committed table stays.
\* A mutant in which the statements executed so far are kept.
rollback_keeps_partial(table, uncommitted) == uncommitted

rollback(table, uncommitted) == table

\* The write of take_snapshot up to the commit: DELETE the period, INSERT the
\* rows; table is the content to commit when ok, the content left otherwise.
\* A mutant that adds each fetched count to the stored one instead of
\* replacing the period.
replace_period_additive(table, day, rs) ==
    LET Key(r) == <<r.date, r.bot_id>>
        keys == {<<rs[i].date, rs[i].bot_id>> : i \in 1..Len(rs)}
        Old(i) == IF \E r \in table : Key(r) = <<rs[i].date, rs[i].bot_id>>
                  THEN (CHOOSE r \in table : Key(r) = <<rs[i].date, rs[i].bot_id>>).num_messages
                  ELSE 0
    IN [table |-> {r \in table : Key(r) \notin keys}
                    \cup {[date |-> rs[i].date, bot_id |-> rs[i].bot_id,
                           num_messages |-> rs[i].num_messages + Old(i)] :
                              i \in 1..Len(rs)},
        ok |-> TRUE]

replace_period(table, day, rs) ==
    LET ins == txn_insert(txn_delete(table, day), rs, 1) IN
    IF ins.ok THEN ins
    ELSE [table |-> rollback(table, ins.table), ok |-> FALSE]

\* take_snapshot up to `AUTH_REQUIRED = False`: ensure_fresh_kinde_token and
\* test_auth_credentials.
take_snapshot_auth ==
    /\ pc = "idle"
    /\ \E outcome \in {"no_credentials", "test_failed", "valid"} :
        /\ stamp' = StampOf(now)
        /\ stages' = {}
        /\ failed' = {}
        /\ raised' = FALSE
        /\ attempt' = 0
        /\ payload' = << >>
        /\ rows_clean' = << >>
        /\ IF outcome = "valid"
           THEN /\ AUTH_REQUIRED' = FALSE
                /\ fetch' = "none"
                /\ pc' = "capture"
           ELSE /\ AUTH_REQUIRED' = TRUE
                /\ fetch' = "auth_invalid"
                /\ pc' = "idle"
    /\ UNCHANGED <<authorVars, now, bots, last_snapshot, txn, bot_rank_history>>

\* take_snapshot returns str(DATABASE) before the write, or an exception of
\* capture_payloads ends it.
abort_cycle(how, flag, exc) ==
    /\ fetch' = how
    /\ AUTH_REQUIRED' = flag
    /\ raised' = exc
    /\ pc' = "idle"
    /\ attempt' = 0
    /\ UNCHANGED <<authorVars, now, bots, last_snapshot, stamp, payload,
                   rows_clean, txn, stages, failed, bot_rank_history>>

\* One iteration of the loop of capture_payloads that does not return a
\* payload, with what take_snapshot does when the call ends there.
capture_attempt(resp) ==
    /\ pc = "capture"
    /\ resp # "json"
    /\ CASE resp = "empty" -> abort_cycle("empty", AUTH_REQUIRED, FALSE)
         [] resp \in {"http_401", "http_500"} ->
                abort_cycle("http_error", AUTH_REQUIRED, TRUE)
         [] resp = "http_429" ->
                IF attempt + 1 < max_retries
                THEN /\ attempt' = attempt + 1
                     /\ UNCHANGED <<authorVars, now, bots, last_snapshot,
                                    AUTH_REQUIRED, pc, stamp, payload, rows_clean,
                                    txn, fetch, raised, stages, failed,
                                    bot_rank_history>>
                ELSE abort_cycle("runtime_error", TRUE, FALSE)
         [] resp \in {"bad_json", "network"} ->
                IF attempt < max_retries - 1
                THEN /\ attempt' = attempt + 1
                     /\ UNCHANGED <<authorVars, now, bots, last_snapshot,
                                    AUTH_REQUIRED, pc, stamp, payload, rows_clean,
                                    txn, fetch, raised, stages, failed,
                                    bot_rank_history>>
                ELSE abort_cycle(resp, AUTH_REQUIRED, TRUE)

\* capture_payloads returns [bots]; take_snapshot flattens and cleans the
\* records and executes the DELETE and the INSERTs in one transaction.  An
\* INSERT that raises rolls the transaction back and ends take_snapshot by
\* that exception.
take_snapshot_write(pl) ==
    /\ pc = "capture"
    /\ LET rs == clean_loop(flatten_items(pl), 1, {}, << >>, stamp)
           w == replace_period(bots, stamp, rs)
       IN /\ payload' = pl
          /\ rows_clean' = rs
          /\ fetch' = "payload"
          /\ attempt' = 0
          /\ IF w.ok
             THEN /\ txn' = w.table
                  /\ pc' = "commit"
                  /\ UNCHANGED <<bots, raised>>
             ELSE /\ bots' = w.table
                  /\ txn' = {}
                  /\ pc' = "idle"
                  /\ raised' = TRUE
    /\ UNCHANGED <<authorVars, now, last_snapshot, AUTH_REQUIRED, stamp, stages,
                   failed, bot_rank_history>>

\* set_last_snapshot_time(): REPLACE INTO metadata the text of the instant t.
\* A mutant that leaves the stored row.
set_last_snapshot_time_skipped(old, t) == old

set_last_snapshot_time(old, t) == Text(t)

\* conn.commit() and set_last_snapshot_time()
take_snapshot_commit ==
    /\ pc = "commit"
    /\ bots' = txn
    /\ txn' = {}
    /\ payload' = << >>
    /\ last_snapshot' = set_last_snapshot_time(last_snapshot, now)
    /\ stages' = stages \cup {"history"}
    /\ pc' = "rank"
    /\ UNCHANGED <<authorVars, now, AUTH_REQUIRED, attempt, stamp, rows_clean,
                   fetch, raised, failed, bot_rank_history>>

\* What fetch_typesense_top_bots can return, bot_id -> rank: the rank of a
\* bot is its position in the listing.
Listings == {<< >>, <<"b1">>, <<"b2">>, <<"b1", "b2">>, <<"b2", "b1">>}
RankMap(l) ==
    [b \in {l[i] : i \in 1..Len(l)} |-> CHOOSE i \in 1..Len(l) : l[i] = b]
TsMaps == {RankMap(l) : l \in Listings}

\* A mutant without the DELETE: the rows of ts_map replace those of the same
\* bots, the other rows of the date stay.
save_rank_history_no_delete(table, day, ts_map) ==
    {r \in table : ~(r.date = day /\ r.bot_id \in DOMAIN ts_map)}
      \cup {[date |-> day, bot_id |-> b, rank |-> ts_map[b]] : b \in DOMAIN ts_map}

\* save_rank_history_for_date(stamp, ts_map): DELETE the ranks of the date,
\* INSERT the ranks of ts_map, commit.  (stamp is never empty here.)
save_rank_history_for_date(table, day, ts_map) ==
    {r \in table : r.date # day}
      \cup {[date |-> day, bot_id |-> b, rank |-> ts_map[b]] : b \in DOMAIN ts_map}

\* The trending refresh and the rank history, two try blocks: an exception
\* of fetch_typesense_top_bots leaves ts_map = {} and the save still runs;
\* an exception of save_rank_history_for_date is logged.
take_snapshot_rank ==
    /\ pc = "rank"
    /\ \E outcome \in {"fetched", "fetch_raises", "save_raises"} :
       \E fetched \in TsMaps :
         LET ts_map == IF outcome = "fetch_raises" THEN << >> ELSE fetched IN
         /\ outcome = "fetch_raises" => fetched = << >>
         /\ bot_rank_history' =
               IF outcome = "save_raises" THEN bot_rank_history
               ELSE save_rank_history_for_date(bot_rank_history, stamp, ts_map)
         /\ failed' = IF outcome = "fetched" THEN failed ELSE failed \cup {"rank"}
    /\ stages' = stages \cup {"rank"}
    /\ pc' = "tags"
    /\ UNCHANGED <<authorVars, now, bots, last_snapshot, AUTH_REQUIRED, attempt,
                   stamp, payload, rows_clean, txn, fetch, raised>>

\* One of the cache stages after the rank stage, each in its own try/except:
\* the tag cache, the rating cache.  The stage is attempted and the cycle
\* goes on, whether the stage raised or not.
\* A mutant in which an exception of the stage ends the cycle.
stage_next_unguarded(next, ok) == IF ok THEN next ELSE "idle"

stage_next(next, ok) == next

take_snapshot_stage(at, stage, next) ==
    /\ pc = at
    /\ \E ok \in BOOLEAN :
        /\ failed' = IF ok THEN failed ELSE failed \cup {stage}
        /\ pc' = stage_next(next, ok)
    /\ stages' = stages \cup {stage}
    /\ UNCHANGED <<authorVars, now, bots, last_snapshot, AUTH_REQUIRED, attempt,
                   stamp, payload, rows_clean, txn, fetch, raised, bot_rank_history>>

\* refresh_tracked_authors_snapshot(stamp) in its try/except, then
\* take_snapshot returns.  The call raises before its loop (the tables
\* cannot be read) or refreshes the tracked authors.
take_snapshot_discovery ==
    /\ pc = "discovery"
    /\ \/ /\ \E poll \in [Authors -> SUBSET Bots] :
            \E det \in DetailsResults(
                  UNION {lookup_ids(author_bot_map, a, poll[a]) : a \in Authors}, now) :
              LET r == refresh_loop([m |-> author_bot_map, bs |-> bot_static,
                                     ret |-> 0], 1, poll, det, now) IN
              /\ \A a \in Authors \ tracked_authors : poll[a] = {}
              /\ author_bot_map' = r.m
              /\ bot_static' = r.bs
          /\ UNCHANGED failed
       \/ /\ failed' = failed \cup {"discovery"}
          /\ UNCHANGED <<author_bot_map, bot_static>>
    /\ stages' = stages \cup {"discovery"}
    /\ pc' = "idle"
    /\ rows_clean' = << >>
    /\ UNCHANGED <<tracked_authors, now, bots, last_snapshot, AUTH_REQUIRED,
                   attempt, stamp, payload, txn, fetch, raised, bot_rank_history>>

\* The caller of the running take_snapshot gets it back.  POST /reauth
\* catches an exception of take_snapshot and sets core.AUTH_REQUIRED = True;
\* POST /take-snapshot only logs it.
caller_gets_back ==
    /\ caller' = IF pc' = "idle" THEN "none" ELSE caller
    /\ core_AUTH_REQUIRED' =
          IF pc' = "idle" /\ raised' /\ caller = "reauth" THEN TRUE
          ELSE core_AUTH_REQUIRED
    /\ UNCHANGED <<viewVars, extVars>>

\* POST /take-snapshot: take_snapshot({"manual": True}).
take_snapshot_route ==
    /\ take_snapshot_auth
    /\ caller' = IF pc' = "idle" THEN "none" ELSE "route"
    /\ UNCHANGED <<core_AUTH_REQUIRED, viewVars, extVars>>

\* POST /reauth: capture and save new credentials, set core.AUTH_REQUIRED =
\* False and call take_snapshot; any exception sets core.AUTH_REQUIRED = True.
reauth ==
    /\ pc = "idle"
    /\ UNCHANGED <<viewVars, extVars>>
    /\ \E captured \in BOOLEAN :
        IF captured
        THEN /\ take_snapshot_auth
             /\ core_AUTH_REQUIRED' = FALSE
             /\ caller' = IF pc' = "idle" THEN "none" ELSE "reauth"
        ELSE /\ core_AUTH_REQUIRED' = TRUE
             /\ UNCHANGED <<authorVars, now, bots, last_snapshot, AUTH_REQUIRED, pc,
                            attempt, stamp, payload, rows_clean, txn, fetch, raised,
                            stages, failed, bot_rank_history, caller>>

NextSnapshot ==
    \/ Tick
    \/ take_snapshot_route
    \/ /\ \/ \E resp \in Responses : capture_attempt(resp)
          \/ \E pl \in Payloads : take_snapshot_write(pl)
          \/ take_snapshot_commit
          \/ take_snapshot_rank
          \/ take_snapshot_stage("tags", "tags", "ratings")
          \/ take_snapshot_stage("ratings", "ratings", "discovery")
          \/ take_snapshot_discovery
       /\ caller_gets_back

\* The snapshot cycle with the route that renews the credentials.
NextStatus == NextSnapshot \/ reauth

\* ------------------------------------------------------------- read APIs

\* --- compute_deltas (core/bots.py) over the rows of the bots table.  A date
\* is a day number; months are the 31-day blocks 1..31, 32..62, ...

MaxRows == 3
MaxCount == 2
week_days == 7
month_days == 30
MonthLen == 31
Timeframes == {"All", "7day", "30day", "current_month"}
BotOrder == <<"b1", "b2">>
BotIndex(b) == CHOOSE i \in 1..Len(BotOrder) : BotOrder[i] = b

\* The order of sort_values(["bot_id", "date"]).
RowBefore(r, q) ==
    \/ BotIndex(r.bot_id) < BotIndex(q.bot_id)
    \/ r.bot_id = q.bot_id /\ r.date < q.date

RECURSIVE sort_values(_)
sort_values(df) ==
    IF df = {} THEN << >>
    ELSE LET first == CHOOSE r \in df : \A q \in df \ {r} : RowBefore(r, q)
         IN <<first>> \o sort_values(df \ {first})

\* groupby("bot_id")["num_messages"].diff().fillna(0) at position i of the
\* sorted rows.
\* A mutant that takes the difference to the row above without grouping.
group_diff_ungrouped(s, i) ==
    IF i > 1 THEN s[i].num_messages - s[i - 1].num_messages ELSE 0

\* A mutant that takes the difference to the first row of the bot.
group_diff_from_first(s, i) ==
    LET first == CHOOSE j \in 1..i :
                     /\ s[j].bot_id = s[i].bot_id
                     /\ \A k \in 1..(j - 1) : s[k].bot_id # s[i].bot_id
    IN s[i].num_messages - s[first].num_messages

group_diff(s, i) ==
    IF i > 1 /\ s[i - 1].bot_id = s[i].bot_id
    THEN s[i].num_messages - s[i - 1].num_messages
    ELSE 0

\* df.loc[df["daily_messages"] < 0, "daily_messages"] = 0
\* A mutant that keeps a negative difference.
clamp_negative_kept(d) == d

clamp_negative(d) == IF d < 0 THEN 0 ELSE d

\* today.replace(day=1)
first_of_month(today) == today - ((today - 1) % MonthLen)

\* The timeframe filter on the date of a row.
in_timeframe(date, tf, today) ==
    CASE tf = "7day" -> date >= today - week_days
      [] tf = "30day" -> date >= today - month_days
      [] tf = "current_month" -> date >= first_of_month(today)
      [] OTHER -> TRUE

with_daily_messages(df) ==
    LET s == sort_values(df) IN
    {[date |-> s[i].date, bot_id |-> s[i].bot_id,
      num_messages |-> s[i].num_messages,
      daily_messages |-> clamp_negative(group_diff(s, i))] : i \in 1..Len(s)}

\* A mutant that filters by the timeframe before taking the differences.
compute_deltas_filter_first(df_raw, tf, today) ==
    with_daily_messages({r \in df_raw : in_timeframe(r.date, tf, today)})

compute_deltas(df_raw, tf, today) ==
    {r \in with_daily_messages(df_raw) : in_timeframe(r.date, tf, today)}

\* What compute_deltas emits besides the returned frame: the safe_log line
\* of an empty input.  Nothing is emitted or stored for a clamped row.
compute_deltas_log(df_raw) ==
    IF df_raw = {} THEN {[kind |-> "no_data", bot_id |-> "", date |-> 0]} ELSE {}

\* GET /: get_bots_data(timeframe) loads the bots table and computes dfc.
top240 == 240
top480 == 480

\* A mutant whose first tier ends below its threshold.
rank_tier_exclusive(r) ==
    IF r # 0 /\ 1 <= r /\ r <= top480
    THEN (IF r < top240 THEN "top240" ELSE "top480")
    ELSE "none"

\* rank_tier of get_bots_data for r = rank_by_bot.get(bot_id, 0); "none" is
\* the None of the code.
rank_tier(r) ==
    IF r # 0 /\ 1 <= r /\ r <= top480
    THEN (IF r <= top240 THEN "top240" ELSE "top480")
    ELSE "none"

\* latest_date = sorted(dfc["date"].unique())[-1]
latest_date(d) == CHOOSE day \in {r.date : r \in d} : \A r \in d : r.date <= day

\* rank_by_bot.get(bot_id, 0) over SELECT bot_id, rank FROM bot_rank_history
\* WHERE date = ?
rank_by_bot(table, day, bot_id) ==
    LET found == {r \in table : r.date = day /\ r.bot_id = bot_id} IN
    IF found = {} THEN 0 ELSE (CHOOSE r \in found : TRUE).rank

\* get_bots_data(timeframe) with its other arguments left at their
\* defaults: one entry for each row of the latest date of dfc, with rank and
\* rank_tier (rank None is NULL, a rank r is <<r>>).
get_bots_data(d, table) ==
    IF d = {} THEN {}
    ELSE {LET r == rank_by_bot(table, latest_date(d), row.bot_id) IN
          [bot_id |-> row.bot_id,
           rank |-> IF rank_tier(r) = "none" THEN NULL ELSE <<r>>,
           rank_tier |-> rank_tier(r)] : row \in {q \in d : q.date = latest_date(d)}}

index(tf) ==
    /\ timeframe' = tf
    /\ dfc' = compute_deltas(bots, tf, StampOf(now))
    /\ bots_data' = get_bots_data(dfc', bot_rank_history)
    /\ UNCHANGED <<authorVars, snapVars, now, extVars>>

NextDeltas == \E tf \in Timeframes : index(tf)

\* The histories the dashboard is asked about: up to MaxRows rows of the
\* bots table, one per (date, bot_id), on days around the window starts.
Days == {1, 20, 35, 40}
Todays == {40, 45}
HistoryRows == [date : Days, bot_id : Bots, num_messages : 0..MaxCount]

RECURSIVE Histories(_)
Histories(n) ==
    IF n = 0 THEN {{}}
    ELSE LET P == Histories(n - 1) IN
         P \cup {h \cup {r} : h \in P, r \in HistoryRows}

OnePerKey(h) ==
    \A r, q \in h : (r.date = q.date /\ r.bot_id = q.bot_id) => r = q

InitDeltas ==
    /\ tracked_authors = {}
    /\ author_bot_map = << >>
    /\ bot_static = << >>
    /\ InitCycle
    /\ InitView
    /\ InitExt
    /\ now \in {DayLen * d : d \in Todays}
    /\ bots \in {h \in Histories(MaxRows) : OnePerKey(h)}

SpecDeltas == InitDeltas /\ [][NextDeltas]_vars

\* GET /api/snapshot_status: `from core import AUTH_REQUIRED` reads the name
\* bound in the package core, which `from .snapshot import *` bound once at
\* import and which POST /reauth alone assigns.
api_snapshot_status ==
    [auth_required |-> core_AUTH_REQUIRED, snapshot_paused |-> core_AUTH_REQUIRED]

\* today_start_utc of load_author_bots: the last midnight at or before t.
TodayStart(t) == t - (t % DayLen)

\* _parse_iso(created_at) succeeded and created_dt >= today_start_utc
CreatedToday(created_at, t) ==
    /\ ~Blank(created_at)
    /\ created_at[1] >= TodayStart(t)

\* load_author_bots(author) at the instant t: author_bot_map JOIN bot_static.
load_author_bots(author, t) ==
    {[bot_id |-> b,
      created_at |-> IF bot_static[b].created_at = NULL THEN EmptyText
                     ELSE bot_static[b].created_at,
      first_seen_at |-> author_bot_map[<<author, b>>].first_seen_at,
      seen_at |-> author_bot_map[<<author, b>>].seen_at,
      is_new |-> /\ CreatedToday(bot_static[b].created_at, t)
                 /\ Blank(author_bot_map[<<author, b>>].seen_at)] :
        b \in {x \in DOMAIN bot_static : <<author, x>> \in DOMAIN author_bot_map}}

\* SUM(CASE WHEN first_seen_at IS NOT NULL AND (seen_at IS NULL OR seen_at = '')
\*          THEN 1 ELSE 0 END) over the rows keys of m.
\* A mutant whose CASE leaves out the first_seen_at test.
RECURSIVE sum_unseen_any(_, _)
sum_unseen_any(m, keys) ==
    IF keys = {} THEN 0
    ELSE LET k == CHOOSE x \in keys : TRUE IN
         (IF Blank(m[k].seen_at) THEN 1 ELSE 0) + sum_unseen_any(m, keys \ {k})

RECURSIVE sum_unseen(_, _)
sum_unseen(m, keys) ==
    IF keys = {} THEN 0
    ELSE LET k == CHOOSE x \in keys : TRUE IN
         (IF m[k].first_seen_at # NULL /\ Blank(m[k].seen_at) THEN 1 ELSE 0)
             + sum_unseen(m, keys \ {k})

RECURSIVE sum_values(_, _)
sum_values(f, ks) ==
    IF ks = {} THEN 0
    ELSE LET k == CHOOSE x \in ks : TRUE IN f[k] + sum_values(f, ks \ {k})

\* GET /api/author-new-counts: ... FROM author_bot_map GROUP BY author
api_author_new_counts(m) ==
    LET by_author ==
            [a \in {k[1] : k \in DOMAIN m} |->
                sum_unseen(m, {k \in DOMAIN m : k[1] = a})]
    IN [total |-> sum_values(by_author, DOMAIN by_author), by_author |-> by_author]

\* ---------------------------------------------------------- specifications

\* The author tracker from an empty database.
SpecAuthors == Init /\ [][NextAuthors]_vars

\* The author tracker started on a database file that already holds
\* membership rows (the file outlives the process): the rows are inputs.
StoredRows ==
    [first_seen_at : {NULL, Text(1)}, seen_at : {NULL, EmptyText, Text(1)}]

InitStored ==
    /\ tracked_authors = Authors
    /\ author_bot_map \in UNION {[D -> StoredRows] : D \in SUBSET (Authors \X Bots)}
    /\ bot_static = [b \in Bots |-> [created_at |-> Text(1)]]
    /\ now = 1
    /\ InitSnapshot
    /\ InitView
    /\ InitExt

SpecStored == InitStored /\ [][NextAuthors]_vars

\* The snapshot cycle from an empty database.
SpecSnapshot == Init /\ [][NextSnapshot]_vars

\* The snapshot cycle and POST /reauth, from an empty database.
SpecStatus == Init /\ [][NextStatus]_vars

\* ------------------------------------------------------------------ claims

Unseen(m, a) ==
    {b \in Bots : /\ <<a, b>> \in DOMAIN m
                  /\ m[<<a, b>>].first_seen_at # NULL
                  /\ Blank(m[<<a, b>>].seen_at)}

\* C1: a refresh that finds no membership row of the category (E empty) and
\* polls a non-empty set S returns 0 and inserts every id of S with
\* first_seen_at = NULL.
C1_BaselineNotDiscovered ==
    [][\A a \in Authors :
        LET E == author_existing_bot_ids(author_bot_map, a)
            S == author_existing_bot_ids(author_bot_map', a)
        IN (E = {} /\ S # {}) =>
            /\ \A b \in S : author_bot_map'[<<a, b>>].first_seen_at = NULL
            /\ \A det \in DetailsResults(S, now) :
                 refresh_single_result(author_bot_map, bot_static, a, S, det, now).ret = 0
            /\ \A det \in DetailsResults(S, now) :
                 author_existing_bot_ids(
                     refresh_single_result(author_bot_map, bot_static, a, S, det, now).m,
                     a) = S]_vars

\* C1 witness: a category has been baselined with two ids, both with
\* first_seen_at NULL.
C1_Witness ==
    \E a \in Authors :
        /\ author_existing_bot_ids(author_bot_map, a) = Bots
        /\ \A b \in Bots : author_bot_map[<<a, b>>].first_seen_at = NULL

\* C2 (as claimed): when the category already has membership rows, every id
\* that a refresh adds to it (an id of S - E) has a non-null first_seen_at.
C2_NewIdsGetFirstSeen ==
    [][\A a \in Authors :
        LET E == author_existing_bot_ids(author_bot_map, a)
            E2 == author_existing_bot_ids(author_bot_map', a)
        IN E # {} =>
            \A b \in E2 \ E : author_bot_map'[<<a, b>>].first_seen_at # NULL]_vars

\* C3: no step changes the first_seen_at of a membership row that exists
\* before and after it (a refresh of any category, an acknowledgement).
C3_FirstSeenImmutable ==
    [][\A k \in (DOMAIN author_bot_map) \cap (DOMAIN author_bot_map') :
        author_bot_map'[k].first_seen_at = author_bot_map[k].first_seen_at]_vars

\* C3 witness: a row with a non-null first_seen_at that has been
\* acknowledged at a later instant.
C3_Witness ==
    \E k \in DOMAIN author_bot_map :
        /\ author_bot_map[k].first_seen_at = Text(1)
        /\ author_bot_map[k].seen_at = Text(2)

\* C4: the count reported for each category is the number of its rows with
\* first_seen_at non-null and seen_at null or empty, and acknowledging an
\* entity takes it out of the count of every category.
C4_CountMatches ==
    /\ \A a \in DOMAIN api_author_new_counts(author_bot_map).by_author :
         api_author_new_counts(author_bot_map).by_author[a]
             = Cardinality(Unseen(author_bot_map, a))
    /\ \A a \in Authors :
         Unseen(author_bot_map, a) # {} =>
             a \in DOMAIN api_author_new_counts(author_bot_map).by_author
    /\ api_author_new_counts(author_bot_map).total
         = Cardinality({k \in DOMAIN author_bot_map :
                           k[2] \in Unseen(author_bot_map, k[1])})

C4_AckDrops ==
    \A b \in Bots :
        author_bot_map' = mark_bot_seen(author_bot_map, b, now) =>
            \A a \in DOMAIN api_author_new_counts(author_bot_map).by_author :
                api_author_new_counts(author_bot_map').by_author[a]
                    = Cardinality(Unseen(author_bot_map, a) \ {b})

C5_IsNewOnlyDiscovered ==
    \A a \in Authors :
        \A e \in load_author_bots(a, now) :
            e.is_new => (e.first_seen_at # NULL /\ e.seen_at = NULL)

\* ------------------------------------------------------- the history store

Stored(r) == [date |-> r.date, bot_id |-> r.bot_id, num_messages |-> r.num_messages]
FetchedRows == {Stored(rows_clean[i]) : i \in 1..Len(rows_clean)}
Usable(d) == d.named /\ d.num # NULL /\ d.id # ""

\* C6: when the history write of take_snapshot for period p commits, the rows
\* of p in the bots table are exactly the deduplicated records of the fetch
\* (a row of p stored before and not fetched now is gone) and the rows of
\* every other period are the ones that were there.
C6_ReplaceExact ==
    [][(pc = "commit" /\ pc' = "rank") =>
          /\ {r \in bots' : r.date = stamp} = FetchedRows
          /\ {r \in bots' : r.date # stamp} = {r \in bots : r.date # stamp}]_vars

C6_Witness ==
    /\ pc = "commit"
    /\ \E r \in bots : r.date = stamp /\ r \notin FetchedRows
                         /\ \A i \in 1..Len(rows_clean) : rows_clean[i].bot_id # r.bot_id
    /\ \E r \in bots : r.date # stamp
    /\ rows_clean # << >>

\* C7: when an INSERT raises after the DELETE and before the commit, the bots
\* table is the one from before the replace: no row of the period deleted,
\* none inserted.  The table changes at the commit only.
C7_AllOrNothing ==
    [][/\ (pc = "capture" /\ raised') => bots' = bots
       /\ bots' # bots => (pc = "commit" /\ pc' = "rank")]_vars

C7_Witness ==
    /\ raised
    /\ fetch = "payload"
    /\ pc = "idle"
    /\ \E r \in bots : r.date = stamp
    /\ Len(rows_clean) >= 2
    /\ rows_clean[1].bindable
    /\ ~rows_clean[2].bindable

\* C8: wherever take_snapshot is about to write, replacing the period with
\* the rows of any fetch and then replacing it again with the same rows
\* leaves the table that the first replace left.
C8_ReplaceIdempotent ==
    pc = "capture" =>
    \A pl \in Payloads :
        LET rs == clean_loop(flatten_items(pl), 1, {}, << >>, stamp)
            once == replace_period(bots, stamp, rs)
        IN replace_period(once.table, stamp, rs).table = once.table

C8_Witness ==
    /\ pc = "commit"
    /\ txn = bots
    /\ rows_clean # << >>
    /\ {r \in bots : r.date = stamp} = FetchedRows

\* C9: the bots table, committed or inside the transaction, holds at most one
\* row per (date, bot_id); of the fetched records that have an id and a
\* count, the first one of each id in traversal order is the stored one, and
\* a record without an id or without a count stores nothing.
C9_Unique(table) ==
    \A r1, r2 \in table : (r1.date = r2.date /\ r1.bot_id = r2.bot_id) => r1 = r2

C9_OnePerEntity ==
    /\ C9_Unique(bots)
    /\ C9_Unique(txn)
    /\ pc = "commit" =>
         /\ \A i \in 1..Len(payload) :
              (/\ Usable(payload[i])
               /\ \A j \in 1..(i - 1) :
                     ~(Usable(payload[j]) /\ payload[j].id = payload[i].id))
              => [date |-> stamp, bot_id |-> payload[i].id,
                  num_messages |-> payload[i].num[1]] \in txn
         /\ \A r \in txn : r.date = stamp =>
              \E i \in 1..Len(payload) : Usable(payload[i]) /\ payload[i].id = r.bot_id

C9_Witness ==
    /\ pc = "commit"
    /\ Len(payload) = 2
    /\ Usable(payload[1])
    /\ Usable(payload[2])
    /\ payload[1].id = payload[2].id
    /\ payload[1].num # payload[2].num

\* C10: a cycle ended by a failed fetch (credentials invalid, empty response,
\* malformed response, request error) has set AUTH_REQUIRED and has performed
\* none of the later stages.
FetchFailures == {"auth_invalid", "empty", "bad_json", "network", "http_error",
                  "runtime_error"}

C10_FetchFailurePauses ==
    (pc = "idle" /\ fetch \in FetchFailures) => (AUTH_REQUIRED /\ stages = {})

\* What the code does keep in each of them: no later stage is performed.
C10_NoLaterStage ==
    (pc = "idle" /\ fetch \in FetchFailures) => stages = {}

\* C11: when the fetch yields no usable record (an empty list, or records
\* without an id or a count), the cycle changes no row of the bots table;
\* the rows stored for the current period remain.
C11_NoUsableRecordsNoChange ==
    [][(fetch' = "payload" /\ rows_clean' = << >>) => bots' = bots]_vars

\* ------------------------------------------------------ the later stages

LaterStages == {"rank", "tags", "ratings", "discovery"}

\* C12: after the history write, each of the rank, tag-cache, rating-cache
\* and discovery stages is attempted whether or not an earlier one failed:
\* every step that leaves a stage goes on to the next stage, and a cycle
\* that wrote the history has attempted all four when it returns.
C12_StageOrder ==
    /\ (pc = "rank" /\ pc' # pc) => (pc' = "tags" /\ "rank" \in stages')
    /\ (pc = "tags" /\ pc' # pc) => (pc' = "ratings" /\ "tags" \in stages')
    /\ (pc = "ratings" /\ pc' # pc) => (pc' = "discovery" /\ "ratings" \in stages')
    /\ (pc = "discovery" /\ pc' # pc) => (pc' = "idle" /\ "discovery" \in stages')

C12_AllAttempted ==
    (pc = "idle" /\ "history" \in stages) => LaterStages \subseteq stages

C12_StagesIndependent == []C12_AllAttempted /\ [][C12_StageOrder]_vars

C12_Witness ==
    /\ pc = "idle"
    /\ "rank" \in failed
    /\ "tags" \in failed
    /\ LaterStages \subseteq stages

\* C13: take_snapshot does not raise to its caller when the entity fetch
\* failed.
C13_FetchFailureReturns == ~(raised /\ fetch \in FetchFailures)

\* C14: a rank stage whose search raised or returned nothing leaves the
\* bot_rank_history rows stored for the period unchanged.
C14_FailedRankKeepsRows ==
    [][(pc = "rank" /\ ("rank" \in failed'
                         \/ {r \in bot_rank_history' : r.date = stamp} = {}))
          => bot_rank_history' = bot_rank_history]_vars

\* C15: the last-snapshot time is written in a cycle exactly when the
\* cycle's history write commits: the commit step writes the current time,
\* and no other step of a cycle (an abort, a stage, a failed stage) changes
\* the stored value.
C15_OnlyCommitStamps ==
    [][IF pc = "commit" /\ pc' = "rank"
       THEN bots' = txn /\ last_snapshot' = Text(now)
       ELSE last_snapshot' = last_snapshot /\ bots' = bots]_vars

C15_Witness ==
    /\ pc = "idle"
    /\ failed = LaterStages
    /\ last_snapshot = Text(now)
    /\ now > 1

\* C16: after a cycle that aborted because the credentials are invalid,
\* the status API reports auth_required and snapshot_paused.
C16_StatusReportsPause ==
    (pc = "idle" /\ fetch = "auth_invalid") =>
        (api_snapshot_status.auth_required /\ api_snapshot_status.snapshot_paused)

\* ------------------------------------------------------------ the deltas

RawRow(r) == [date |-> r.date, bot_id |-> r.bot_id, num_messages |-> r.num_messages]
EarlierRows(h, r) == {q \in h : q.bot_id = r.bot_id /\ q.date < r.date}
PrevRow(h, r) ==
    CHOOSE q \in EarlierRows(h, r) : \A p \in EarlierRows(h, r) : p.date <= q.date
Max0(x) == IF x < 0 THEN 0 ELSE x
PeriodDelta(h, r) ==
    IF EarlierRows(h, r) = {} THEN 0
    ELSE Max0(r.num_messages - PrevRow(h, r).num_messages)
Served == timeframe # "none"

\* C17: every delta reported by compute_deltas is >= 0, for every entity,
\* period and window, also when the stored counts of an entity decrease.
C17_DeltasNonNegative == \A r \in dfc : r.daily_messages >= 0

C17_Witness ==
    /\ timeframe = "7day"
    /\ \E r \in dfc :
         /\ EarlierRows(bots, r) # {}
         /\ PrevRow(bots, r).num_messages > r.num_messages
         /\ r.daily_messages = 0

\* C18: the reported rows are the stored rows inside the window, and the
\* delta of a row is 0 when it is the entity's first stored row and
\* max(0, count - previous count) otherwise, the previous row being the
\* entity's previous stored period in the full history.
C18_DeltaIsClampedDifference ==
    Served =>
      /\ {RawRow(r) : r \in dfc} =
            {q \in bots : in_timeframe(q.date, timeframe, StampOf(now))}
      /\ \A r \in dfc : r.daily_messages = PeriodDelta(bots, r)

C18_Witness ==
    /\ Served
    /\ \E r, q \in dfc :
         /\ r.bot_id = q.bot_id
         /\ EarlierRows(bots, q) = {}
         /\ q.num_messages > 0
         /\ q.daily_messages = 0
         /\ r.daily_messages > 0
    /\ \E r \in dfc : \E q \in bots : q.bot_id # r.bot_id /\ q.date < r.date

RECURSIVE SumDaily(_)
SumDaily(S) ==
    IF S = {} THEN 0
    ELSE LET r == CHOOSE x \in S : TRUE IN r.daily_messages + SumDaily(S \ {r})

NonDecreasing(h, b) ==
    \A r, q \in h :
        (r.bot_id = b /\ q.bot_id = b /\ r.date < q.date)
            => r.num_messages <= q.num_messages

\* C19: in the unbounded window, for an entity whose stored counts never
\* decrease, the deltas of the periods after a up to and including b add up
\* to count[b] - count[a], for any two of its periods a <= b.
C19_DeltaConservation ==
    timeframe = "All" =>
      \A b \in Bots : NonDecreasing(bots, b) =>
        \A ra, rb \in {r \in bots : r.bot_id = b} :
          ra.date <= rb.date =>
            SumDaily({r \in dfc : r.bot_id = b /\ ra.date < r.date
                                   /\ r.date <= rb.date})
              = rb.num_messages - ra.num_messages

C19_Witness ==
    /\ timeframe = "All"
    /\ \E b \in Bots :
         /\ NonDecreasing(bots, b)
         /\ Cardinality({r \in dfc : r.bot_id = b /\ r.daily_messages > 0}) >= 2

Windows == {"7day", "30day", "current_month"}
BeforeWindow(b) ==
    {q \in bots : q.bot_id = b /\ ~in_timeframe(q.date, timeframe, StampOf(now))}
InWindow(b) == {r \in dfc : r.bot_id = b}
FirstIn(b) == CHOOSE r \in InWindow(b) : \A q \in InWindow(b) : r.date <= q.date
LastBefore(b) == CHOOSE q \in BeforeWindow(b) : \A p \in BeforeWindow(b) : p.date <= q.date

\* C20: in a window, for an entity with a stored row before the window
\* start, the delta of its first row inside the window is that row's count
\* minus the count of its last row before the window start, clamped at 0;
\* the later rows in the window keep their period-over-period delta.
C20_WindowBoundary ==
    timeframe \in Windows =>
      \A b \in Bots : (BeforeWindow(b) # {} /\ InWindow(b) # {}) =>
        /\ FirstIn(b).daily_messages =
              Max0(FirstIn(b).num_messages - LastBefore(b).num_messages)
        /\ \A r \in InWindow(b) \ {FirstIn(b)} :
              r.daily_messages = PeriodDelta(bots, r)

C20_Witness ==
    /\ timeframe \in Windows
    /\ \E b \in Bots :
         /\ BeforeWindow(b) # {}
         /\ Cardinality(InWindow(b)) >= 2
         /\ FirstIn(b).daily_messages # 0
         /\ FirstIn(b).daily_messages # FirstIn(b).num_messages

\* C21: for every reported row whose computed delta was negative and was
\* clamped to 0, compute_deltas has recorded an anomaly observation for that
\* entity and period, and the stored row keeps its count.
C21_ClampRecordsAnomaly ==
    Served =>
      \A r \in dfc :
        (EarlierRows(bots, r) # {}
           /\ r.num_messages < PrevRow(bots, r).num_messages) =>
          /\ RawRow(r) \in bots
          /\ \E o \in compute_deltas_log(bots) :
                o.kind = "anomaly" /\ o.bot_id = r.bot_id /\ o.date = r.date

\* ------------------------------------------- the Typesense search call

search_attempts == 3
Outcomes == {"ok", "non_dict", "bad_json", "http_429", "http_error", "network", "other"}
Failures == {"http_429", "http_error", "network", "other"}

\* A mutant in which the exception of the last attempt reaches the caller.
attempt_returns_raising(outcome, n) ==
    CASE outcome = "ok" -> "data"
      [] outcome \in {"non_dict", "bad_json"} -> "empty"
      [] OTHER -> IF n < search_attempts THEN "pending" ELSE "raised"

\* multi_search_request after its attempt number n ended as outcome: a dict
\* is returned as it is, JSON that is no dict or no JSON returns {} at once,
\* an exception is logged and slept on, and the loop goes on; after the
\* last attempt the function returns {}.
attempt_returns(outcome, n) ==
    CASE outcome = "ok" -> "data"
      [] outcome \in {"non_dict", "bad_json"} -> "empty"
      [] OTHER -> IF n < search_attempts THEN "pending" ELSE "empty"

\* A caller calls multi_search_request(payload).
multi_search_call ==
    /\ ms_return # "pending"
    /\ ms_log' = << >>
    /\ ms_return' = "pending"
    /\ UNCHANGED <<authorVars, snapVars, now, viewVars, fetchVars, cacheVars, threads,
                   lateVars>>

\* One turn of the loop for attempt in range(3).
multi_search_attempt(outcome) ==
    /\ ms_return = "pending"
    /\ ms_log' = Append(ms_log, outcome)
    /\ ms_return' = attempt_returns(outcome, Len(ms_log) + 1)
    /\ UNCHANGED <<authorVars, snapVars, now, viewVars, fetchVars, cacheVars, threads,
                   lateVars>>

NextSearch ==
    \/ multi_search_call
    \/ \E outcome \in Outcomes : multi_search_attempt(outcome)

SpecSearch == Init /\ [][NextSearch]_vars

\* C28: a call of multi_search_request makes at most 3 attempts, never
\* raises, and has returned the empty result once 3 attempts have failed
\* (HTTP error, rate limiting, network error or any other exception).
C28_BoundedRetryReturnsEmpty ==
    /\ Len(ms_log) <= 3
    /\ ms_return # "raised"
    /\ (Len(ms_log) = 3 /\ \A i \in 1..3 : ms_log[i] \in Failures) =>
          ms_return = "empty"

C28_Witness ==
    /\ Len(ms_log) = 3
    /\ ms_log[1] = "http_429"
    /\ ms_log[2] = "network"
    /\ ms_log[3] = "other"
    /\ ms_return = "empty"

\* ------------------------------------------- the paginated Typesense fetches

\* max_pages and per_page of the fetches (10 and 48 for the trending
\* listing, 60 and 250 for the scan of an author), scaled down.
max_pages == 2
per_page == 2

\* A hit is its document's character_id, "" for a hit without a document
\* or without an id.
HitIds == Bots \cup {""}
Pages == UNION {[1..k -> HitIds] : k \in 0..per_page}
IsId(cid) == cid # ""

\* hits = results_page[0].get("hits", []); the empty dict of a failed
\* search has no results and so no hits.
response_hits(ret, data) == IF ret = "data" THEN data ELSE << >>

\* A mutant that ranks a hit by its position among the accepted hits of
\* its own page.
RECURSIVE accept_hits_page_rank(_, _, _)
accept_hits_page_rank(all, hs, pg) ==
    IF hs = << >> THEN all
    ELSE accept_hits_page_rank(
           IF IsId(Head(hs))
           THEN Append(all, [character_id |-> Head(hs), page |-> pg,
                             rank |-> Cardinality({i \in 1..Len(all) : all[i].page = pg}) + 1])
           ELSE all,
           Tail(hs), pg)

\* for obj in hits: a hit without a document or an id is skipped, any other
\* is appended to ALL_RESULTS with rank = len(ALL_RESULTS) + 1.
RECURSIVE accept_hits(_, _, _)
accept_hits(all, hs, pg) ==
    IF hs = << >> THEN all
    ELSE accept_hits(
           IF IsId(Head(hs))
           THEN Append(all, [character_id |-> Head(hs), page |-> pg,
                             rank |-> Len(all) + 1])
           ELSE all,
           Tail(hs), pg)

\* A mutant that stops on an empty page only.
loop_goes_on_short_page(hs, next_page) ==
    hs # << >> /\ next_page <= max_pages

\* Whether the while loop requests another page after a page of hits hs:
\* not after an empty page (break), not after a page shorter than per_page
\* (break), and only while page <= max_pages.
loop_goes_on(hs, next_page) ==
    hs # << >> /\ Len(hs) >= per_page /\ next_page <= max_pages

\* return {b["character_id"]: b for b in ALL_RESULTS}, each entry by its
\* rank: a later entry of the same id replaces an earlier one.
top_bots_map(all) ==
    [b \in {all[i].character_id : i \in 1..Len(all)} |->
        all[CHOOSE i \in 1..Len(all) :
              /\ all[i].character_id = b
              /\ \A j \in (i + 1)..Len(all) : all[j].character_id # b].rank]

\* de-dupe, preserve order
RECURSIVE uniq(_)
uniq(s) ==
    IF s = << >> THEN << >>
    ELSE LET u == uniq(SubSeq(s, 1, Len(s) - 1)) IN
         IF \E i \in 1..Len(u) : u[i] = s[Len(s)] THEN u ELSE Append(u, s[Len(s)])

\* fetch_typesense_top_bots(use_cache=False): one turn of its while loop,
\* the request of a page included; after the last turn the function
\* returns the map of ALL_RESULTS.
fetch_typesense_top_bots_page(ret, data) ==
    /\ fpc = "top_bots"
    /\ LET hs == response_hits(ret, data)
           all == accept_hits(ALL_RESULTS, hs, page)
           pg == IF hs = << >> THEN page ELSE page + 1
           goes_on == loop_goes_on(hs, pg)
       IN /\ requests' = requests + 1
          /\ hits' = hs
          /\ ALL_RESULTS' = all
          /\ page' = pg
          /\ fpc' = IF goes_on THEN "top_bots" ELSE "rank_save"
          /\ returned' = IF goes_on THEN returned ELSE top_bots_map(all)
    /\ UNCHANGED <<authorVars, snapVars, now, viewVars, searchVars, cacheVars,
                   threads, lateVars, out_ids, saved_maps>>

\* take_snapshot: save_rank_history_for_date(stamp, ts_map) with the map
\* the fetch returned.
rank_save ==
    /\ fpc = "rank_save"
    /\ bot_rank_history' = save_rank_history_for_date(bot_rank_history, stamp, returned)
    /\ saved_maps' = Append(saved_maps, returned)
    /\ fpc' = "done"
    /\ UNCHANGED <<authorVars, now, viewVars, searchVars, cacheVars, threads,
                   lateVars, bots, last_snapshot, AUTH_REQUIRED, pc, attempt, stamp, payload, rows_clean, txn,
                   fetch, raised, stages, failed, core_AUTH_REQUIRED, caller,
                   page, hits, ALL_RESULTS, out_ids, requests, returned>>

\* fetch_typesense_bot_ids_by_author(author): one turn of its while loop;
\* after the last turn the function returns the ids without duplicates.
fetch_typesense_bot_ids_by_author_page(ret, data) ==
    /\ fpc = "by_author"
    /\ LET hs == response_hits(ret, data)
           collected == out_ids \o SelectSeq(hs, IsId)
           goes_on == loop_goes_on(hs, page + 1)
       IN /\ requests' = requests + 1
          /\ hits' = hs
          /\ out_ids' = collected
          /\ page' = IF hs # << >> /\ Len(hs) >= per_page THEN page + 1 ELSE page
          /\ fpc' = IF goes_on THEN "by_author" ELSE "done"
          /\ returned' = IF goes_on THEN returned ELSE uniq(collected)
    /\ UNCHANGED <<authorVars, snapVars, now, viewVars, searchVars, cacheVars,
                   threads, lateVars, ALL_RESULTS, saved_maps>>

NextRanks ==
    \/ \E ret \in {"data", "empty"} : \E data \in Pages :
          fetch_typesense_top_bots_page(ret, data)
    \/ rank_save
    \/ \E ret \in {"data", "empty"} : \E data \in Pages :
          fetch_typesense_bot_ids_by_author_page(ret, data)

\* A paginated fetch has been called.  Before the trending fetch, the
\* ranks of the period are those of no earlier save or of one earlier save.
InitRanks ==
    /\ tracked_authors = {}
    /\ author_bot_map = << >>
    /\ bot_static = << >>
    /\ now = 1
    /\ bots = {}
    /\ InitLocals
    /\ InitView
    /\ InitSearch
    /\ InitCaches
    /\ InitThreads
    /\ InitLate
    /\ fpc \in {"top_bots", "by_author"}
    /\ page = 1
    /\ hits = << >>
    /\ ALL_RESULTS = << >>
    /\ out_ids = << >>
    /\ requests = 0
    /\ returned = << >>
    /\ saved_maps \in {<< >>} \cup {<<m>> : m \in TsMaps}
    /\ fpc = "by_author" => saved_maps = << >>
    /\ bot_rank_history =
          IF saved_maps = << >> THEN {}
          ELSE save_rank_history_for_date({}, 0, saved_maps[1])

SpecRanks == InitRanks /\ [][NextRanks]_vars

\* A step of the running fetch: its next page request, its return, or the
\* save that follows it.  Every such step is a step of NextRanks.
LoopTurn ==
    /\ fpc \in {"top_bots", "by_author", "rank_save"}
    /\ fpc' \in {"top_bots", "by_author", "rank_save", "done"}
    /\ requests' = requests + 1 \/ fpc' = "done"

\* The paginated fetches before any rank was saved, under the scheduling of
\* the code: the running call takes its next step (the thread is not
\* stopped and every request has a timeout).
InitPages == InitRanks /\ saved_maps = << >>
SpecPages == InitPages /\ [][NextRanks]_vars /\ WF_<<fpc, requests>>(LoopTurn)

\* The rank rows stored for the period of stamp.
PeriodRows == {r \in bot_rank_history : r.date = stamp}
RowsOf(ts_map) ==
    {[date |-> stamp, bot_id |-> b, rank |-> ts_map[b]] : b \in DOMAIN ts_map}

C22_UniqueRows ==
    \A r1, r2 \in PeriodRows :
        (r1.bot_id = r2.bot_id \/ r1.rank = r2.rank) => r1 = r2

C22_AcceptedPosition ==
    \A i \in 1..Len(ALL_RESULTS) : ALL_RESULTS[i].rank = i

C22_AcceptedInOrder ==
    (fpc = "top_bots" /\ requests' # requests) =>
        LET new == SubSeq(ALL_RESULTS', Len(ALL_RESULTS) + 1, Len(ALL_RESULTS'))
            acc == SelectSeq(hits', IsId)
        IN /\ SubSeq(ALL_RESULTS', 1, Len(ALL_RESULTS)) = ALL_RESULTS
           /\ Len(new) = Len(acc)
           /\ \A k \in 1..Len(new) :
                 new[k].character_id = acc[k] /\ new[k].page = page

\* C22 (as amended): the rank ingestor gives each accepted hit rank = its
\* 1-based position among the accepted hits of the flattened page-ordered
\* listing (a hit without a document or an id is skipped and takes no
\* rank), and among the rank rows stored for one period no two entities
\* have the same rank and no entity has more than one row.
C22_RankIsAcceptedPosition ==
    []C22_UniqueRows /\ []C22_AcceptedPosition /\ [][C22_AcceptedInOrder]_vars

C22_RawPosition ==
    (fpc = "top_bots" /\ requests' # requests) =>
        \A j \in 1..Len(hits') :
            IsId(hits'[j]) =>
              \E i \in 1..Len(ALL_RESULTS') :
                  ALL_RESULTS'[i] = [character_id |-> hits'[j], page |-> page,
                                     rank |-> (page - 1) * per_page + j]

\* C22 (as stated): each accepted hit has rank = its 1-based position in the
\* flattened page-ordered listing that was received, and the stored rows of
\* a period have distinct ranks and distinct entities.
C22_RankIsListingPosition ==
    []C22_UniqueRows /\ [][C22_RawPosition]_vars

C22_Witness ==
    /\ fpc = "done"
    /\ Len(ALL_RESULTS) = 3
    /\ ALL_RESULTS[3].page = 2
    /\ ALL_RESULTS[1].character_id = ALL_RESULTS[3].character_id
    /\ \E j \in 1..Len(hits) : ~IsId(hits[j])
    /\ Cardinality(PeriodRows) = 2

\* C23: after the ranks of a period are saved from a listing L1 and then
\* from a listing L2, the rows of the period are exactly those of L2: one
\* row with its L2 rank for each entity of L2, none for an entity that was
\* only in L1.
C23_RankFullReplace ==
    PeriodRows =
        IF saved_maps = << >> THEN {} ELSE RowsOf(saved_maps[Len(saved_maps)])

C23_Witness ==
    /\ Len(saved_maps) = 2
    /\ \E x, y \in Bots :
         /\ x \in DOMAIN saved_maps[1] /\ x \notin DOMAIN saved_maps[2]
         /\ y \in DOMAIN saved_maps[1] /\ y \in DOMAIN saved_maps[2]
         /\ saved_maps[1][y] # saved_maps[2][y]
         /\ PeriodRows = {[date |-> stamp, bot_id |-> y, rank |-> saved_maps[2][y]]}

C29_AtMostMaxPages == requests <= max_pages

C29_NoneAfterShortPage ==
    requests' # requests =>
        /\ requests' = requests + 1
        /\ requests = 0 \/ Len(hits) = per_page

\* C29: every paginated fetch terminates: it issues at most max_pages page
\* requests, and none after the first page that has fewer hits than
\* per_page (zero hits included).
C29_PaginationTerminates ==
    /\ []C29_AtMostMaxPages
    /\ [][C29_NoneAfterShortPage]_vars
    /\ <>(fpc = "done")

C29_Witness ==
    /\ fpc = "done"
    /\ requests = max_pages
    /\ Len(hits) = per_page
    /\ out_ids # << >>

\* ------------------------------------------------ the tiers of the dashboard

\* The tables the dashboard reads for its tiers: up to MaxItems rows of the bots
\* table and up to MaxRankRows rows of bot_rank_history, one per (date,
\* bot_id), on the last two days, with ranks around the tier thresholds.
MaxRankRows == 2
RankDays == {35, 40}
RankValues == {1, 240, 241, 480, 481}
RankRows == [date : RankDays, bot_id : Bots, rank : RankValues]
TierHistories ==
    {h \in SUBSET [date : RankDays, bot_id : Bots, num_messages : {1}] :
        Cardinality(h) <= MaxItems}

RECURSIVE RankTables(_)
RankTables(n) ==
    IF n = 0 THEN {{}}
    ELSE LET P == RankTables(n - 1) IN
         P \cup {t \cup {r} : t \in P, r \in RankRows}

InitTiers ==
    /\ tracked_authors = {}
    /\ author_bot_map = << >>
    /\ bot_static = << >>
    /\ InitLocals
    /\ InitView
    /\ InitExt
    /\ now \in {DayLen * d : d \in Todays}
    /\ bots \in TierHistories
    /\ bot_rank_history \in {t \in RankTables(MaxRankRows) : OnePerKey(t)}

SpecTiers == InitTiers /\ [][NextDeltas]_vars

\* C24: the tier reported for an entity is derived from its rank in the
\* latest period of the window: top240 when 1 <= rank <= 240, top480 when
\* 240 < rank <= 480, and no tier, with the rank reported as absent, when it
\* has no rank row for that period or its rank is outside 1..480.
C24_TierFromLatestRank ==
    (Served /\ dfc # {}) =>
        LET day == latest_date(dfc) IN
        /\ {e.bot_id : e \in bots_data} = {r.bot_id : r \in {q \in dfc : q.date = day}}
        /\ \A e \in bots_data :
             LET found == {r \in bot_rank_history : r.date = day /\ r.bot_id = e.bot_id} IN
             /\ \A r \in found :
                  /\ (1 <= r.rank /\ r.rank <= 240) =>
                        (e.rank_tier = "top240" /\ e.rank = <<r.rank>>)
                  /\ (240 < r.rank /\ r.rank <= 480) =>
                        (e.rank_tier = "top480" /\ e.rank = <<r.rank>>)
                  /\ (r.rank < 1 \/ r.rank > 480) =>
                        (e.rank_tier = "none" /\ e.rank = NULL)
             /\ found = {} => (e.rank_tier = "none" /\ e.rank = NULL)

C24_Witness ==
    /\ Served
    /\ \E x, y \in bots_data :
         /\ x.rank_tier = "top240" /\ x.rank = <<240>>
         /\ y.rank_tier = "none"
         /\ \E r \in bot_rank_history :
               r.bot_id = y.bot_id /\ r.date = latest_date(dfc) /\ r.rank = 481

\* ------------------------------------------------- the attribute caches

\* The values a cache is given: a list of tags; a rating score (<<s>>) or
\* None (NULL).
TagLists == {<< >>, <<"t1">>}
Scores == {NULL, Text(5)}

\* json.dumps(tags or []) and json.loads(tags_json): the text of a list.
json_dumps(v) == <<"json", v>>
json_loads(text) == text[2]

\* A mutant that keeps only the rows it is given.
insert_replacing_all(table, new_rows) == new_rows

\* INSERT OR REPLACE of one row for each key of the map.
insert_or_replace(table, new_rows) ==
    [b \in DOMAIN table \cup DOMAIN new_rows |->
        IF b \in DOMAIN new_rows THEN new_rows[b] ELSE table[b]]

\* save_cached_tag_map(tag_map) on the table bot_tags_cache.
save_cached_tag_map(table, tag_map, t) ==
    IF DOMAIN tag_map = {} THEN table
    ELSE insert_or_replace(table,
            [b \in DOMAIN tag_map |->
                [tags_json |-> json_dumps(tag_map[b]), updated_at |-> Text(t)]])

\* save_cached_rating_map(rating_map) on the table it writes, bot_ratings.
save_cached_rating_map(table, rating_map, t) ==
    IF DOMAIN rating_map = {} THEN table
    ELSE insert_or_replace(table,
            [b \in DOMAIN rating_map |->
                [rating_score |-> rating_map[b], updated_at |-> Text(t)]])

\* The rows a load selects: WHERE bot_id IN (ids) if bot_ids is a non-empty
\* list, every row otherwise.
selected(table, ids) ==
    IF ids # {} THEN DOMAIN table \cap ids ELSE DOMAIN table

\* A mutant that fails when an id it is asked for has no row.
load_cached_tag_map_strict(table, ids) ==
    [raised |-> ~(ids \subseteq DOMAIN table),
     out |-> [b \in selected(table, ids) |-> json_loads(table[b].tags_json)]]

\* load_cached_tag_map(bot_ids) on the table bot_tags_cache.
load_cached_tag_map(table, ids) ==
    [raised |-> FALSE,
     out |-> [b \in selected(table, ids) |-> json_loads(table[b].tags_json)]]

\* load_cached_rating_map(bot_ids) on the table it reads, bot_ratings_cache.
load_cached_rating_map(table, ids) ==
    [raised |-> FALSE,
     out |-> [b \in selected(table, ids) |-> table[b].rating_score]]

\* take_snapshot: save_cached_tag_map(tag_map).
cache_tags(tag_map) ==
    /\ bot_tags_cache' = save_cached_tag_map(bot_tags_cache, tag_map, now)
    /\ upserted' = [upserted EXCEPT
                      !.tags = [b \in DOMAIN @ \cup DOMAIN tag_map |->
                                  IF b \in DOMAIN tag_map THEN tag_map[b] ELSE @[b]]]
    /\ UNCHANGED <<bot_ratings, bot_ratings_cache, loaded>>

\* take_snapshot: save_cached_rating_map(rating_map).
cache_ratings(rating_map) ==
    /\ bot_ratings' = save_cached_rating_map(bot_ratings, rating_map, now)
    /\ upserted' = [upserted EXCEPT
                      !.ratings = [b \in DOMAIN @ \cup DOMAIN rating_map |->
                                     IF b \in DOMAIN rating_map THEN rating_map[b] ELSE @[b]]]
    /\ UNCHANGED <<bot_tags_cache, bot_ratings_cache, loaded>>

\* get_bots_data: tag_map = load_cached_tag_map(bot_ids).
read_tags(ids) ==
    /\ LET got == load_cached_tag_map(bot_tags_cache, ids) IN
       loaded' = [cache |-> "tags", ids |-> ids, raised |-> got.raised, out |-> got.out]
    /\ UNCHANGED <<bot_tags_cache, bot_ratings, bot_ratings_cache, upserted>>

\* get_bots_data: rating_map = load_cached_rating_map(bot_ids).
read_ratings(ids) ==
    /\ LET got == load_cached_rating_map(bot_ratings_cache, ids) IN
       loaded' = [cache |-> "ratings", ids |-> ids, raised |-> got.raised, out |-> got.out]
    /\ UNCHANGED <<bot_tags_cache, bot_ratings, bot_ratings_cache, upserted>>

NextCaches ==
    \/ Tick
    \/ /\ \/ \E D \in SUBSET Bots : \E tag_map \in [D -> TagLists] : cache_tags(tag_map)
          \/ \E D \in SUBSET Bots : \E rating_map \in [D -> Scores] : cache_ratings(rating_map)
          \/ \E ids \in SUBSET Bots : read_tags(ids)
          \/ \E ids \in SUBSET Bots : read_ratings(ids)
       /\ UNCHANGED <<authorVars, snapVars, now, viewVars, searchVars, fetchVars,
                      threads, lateVars>>

SpecCaches == Init /\ [][NextCaches]_vars

\* C25: reading the tag cache or the rating cache for ids that were never
\* upserted never fails, and such ids are absent from the returned map,
\* also when the cache holds no entry at all.
C25_CacheMissSafe ==
    [][\A cache \in {"tags", "ratings"} :
         (loaded' # loaded /\ loaded'.cache = cache) =>
            /\ ~loaded'.raised
            /\ \A b \in Bots \ DOMAIN upserted[cache] : b \notin DOMAIN loaded'.out]_vars

C25_Witness ==
    /\ loaded.cache = "tags"
    /\ loaded.ids = Bots
    /\ ~loaded.raised
    /\ \E b \in Bots : DOMAIN loaded.out = {b} /\ DOMAIN upserted.tags = {b}

\* C26: for both caches, after an upsert has stored a value for an id, a get
\* for that id returns that value, and after several upserts it returns the
\* most recent one.
C26_GetAfterUpsert ==
    [][\A cache \in {"tags", "ratings"} :
         (loaded' # loaded /\ loaded'.cache = cache) =>
            \A b \in loaded'.ids \cap DOMAIN upserted[cache] :
                b \in DOMAIN loaded'.out /\ loaded'.out[b] = upserted[cache][b]]_vars

\* ------------------------------------------- the threads that run a cycle

\* The positions of take_snapshot, in order: the credential check, the
\* capture, the write of the bots rows, and the four later stages.
Positions == <<"auth", "capture", "write", "rank", "tags", "ratings", "discovery">>
PositionAfter(at) ==
    LET i == CHOOSE k \in 1..Len(Positions) : Positions[k] = at IN
    IF i = Len(Positions) THEN "idle" ELSE Positions[i + 1]

\* snapshot_scheduler, one turn of its while loop after time.sleep(3600):
\* ensure_fresh_kinde_token(), and take_snapshot({}) if the credentials are
\* valid.  Nothing is checked or held before the call.
scheduler_turn(valid) ==
    /\ threads["scheduler"].at = "idle"
    /\ threads' = [threads EXCEPT !["scheduler"] =
                      IF valid THEN [at |-> "auth", via |-> "scheduler"] ELSE @]

\* The server takes POST /take-snapshot or POST /reauth on its request
\* thread and the handler calls take_snapshot (POST /reauth after the
\* capture of new credentials has succeeded).
request_calls(route, captured) ==
    /\ threads["request"].at = "idle"
    /\ route = "take_snapshot" => captured
    /\ threads' = [threads EXCEPT !["request"] =
                      IF captured THEN [at |-> "auth", via |-> route] ELSE @]

\* The take_snapshot of a thread goes on to its next position, or returns
\* (or raises) where the code does: at the credential check, at the
\* capture, and after the last stage.
take_snapshot_goes_on(th, ends) ==
    /\ threads[th].at # "idle"
    /\ ends => threads[th].at \in {"auth", "capture", "discovery"}
    /\ LET next == IF ends THEN "idle" ELSE PositionAfter(threads[th].at) IN
       threads' = [threads EXCEPT ![th] =
                      IF next = "idle" THEN [at |-> "idle", via |-> "none"]
                      ELSE [@ EXCEPT !.at = next]]

NextThreads ==
    /\ \/ \E valid \in BOOLEAN : scheduler_turn(valid)
       \/ \E route \in {"take_snapshot", "reauth"} : \E captured \in BOOLEAN :
             request_calls(route, captured)
       \/ \E th \in Threads : \E ends \in BOOLEAN : take_snapshot_goes_on(th, ends)
    /\ UNCHANGED <<authorVars, snapVars, now, viewVars, searchVars, fetchVars,
                   cacheVars, lateVars>>

SpecThreads == Init /\ [][NextThreads]_vars

\* C27: at most one execution of take_snapshot is in progress at any time,
\* counting the cycles of the scheduler, of POST /take-snapshot and of
\* POST /reauth.
C27_OneCycleAtATime ==
    Cardinality({th \in Threads : threads[th].at # "idle"}) <= 1

\* C30: an acknowledgement, of one entity (mark_bot_seen) or in bulk
\* (mark_all_seen), sets seen_at only on membership rows where it is still
\* null: the seen_at of an already acknowledged row is left unchanged.
C30_AckOnlyWhereNull ==
    [][(\/ \E b \in Bots : author_bot_map' = mark_bot_seen(author_bot_map, b, now)
        \/ \E a \in Authors \cup {""} :
              author_bot_map' = mark_all_seen(author_bot_map, a, now)) =>
         \A k \in DOMAIN author_bot_map :
             ~Blank(author_bot_map[k].seen_at) =>
                 author_bot_map'[k].seen_at = author_bot_map[k].seen_at]_vars

\* take_snapshot: the two cache saves, with the map each was given.
upsert_tags(tag_map) ==
    /\ cache_tags(tag_map)
    /\ given' = [cache |-> "tags", keys |-> DOMAIN tag_map]

upsert_ratings(rating_map) ==
    /\ cache_ratings(rating_map)
    /\ given' = [cache |-> "ratings", keys |-> DOMAIN rating_map]

NextUpserts ==
    \/ Tick
    \/ /\ \/ \E D \in SUBSET Bots : \E tag_map \in [D -> TagLists] : upsert_tags(tag_map)
          \/ \E D \in SUBSET Bots : \E rating_map \in [D -> Scores] : upsert_ratings(rating_map)
       /\ UNCHANGED <<authorVars, snapVars, now, viewVars, searchVars, fetchVars,
                      threads, restVars>>

SpecUpserts == Init /\ [][NextUpserts]_vars

\* The row of an id in a table, NULL if it has none.
RowOrNull(table, b) == IF b \in DOMAIN table THEN table[b] ELSE NULL

\* C39: a cache upsert changes only the entries whose ids are keys of the
\* given map: the entries of all other ids keep their value and timestamp,
\* an empty map changes nothing, and no step removes an entry.
C39_UpsertFrame ==
    [][/\ \A b \in Bots \ given'.keys :
             /\ RowOrNull(bot_tags_cache', b) = RowOrNull(bot_tags_cache, b)
             /\ RowOrNull(bot_ratings', b) = RowOrNull(bot_ratings, b)
       /\ given'.cache # "tags" => bot_tags_cache' = bot_tags_cache
       /\ given'.cache # "ratings" => bot_ratings' = bot_ratings
       /\ bot_ratings_cache' = bot_ratings_cache
       /\ DOMAIN bot_tags_cache \subseteq DOMAIN bot_tags_cache'
       /\ DOMAIN bot_ratings \subseteq DOMAIN bot_ratings']_vars

C39_Witness ==
    /\ given = [cache |-> "tags", keys |-> {"b2"}]
    /\ DOMAIN bot_tags_cache = Bots
    /\ bot_tags_cache["b1"].updated_at = Text(1)
    /\ bot_tags_cache["b2"].updated_at = Text(2)
    /\ DOMAIN bot_ratings = {"b1"}

\* C40: a cache read given a list of ids returns only entries whose id is
\* in that list, for every list, the empty list included, for which it
\* returns the empty map.
C40_ReadOnlyAsked ==
    [][loaded' # loaded => DOMAIN loaded'.out \subseteq loaded'.ids]_vars

\* ------------------------------------------- bot_static: the other columns

\* The names and greetings the upstream catalogue answers with ("" when the
\* document has no greeting).
Names == {"n1", "n2"}
Greetings == {"", "hi"}

\* fetch_typesense_bot_details_by_ids: the answers for the ids it finds, with
\* the columns name, greeting and created_at ("" when createdAt does not
\* convert).
DetailRows(t) ==
    [created_at : {EmptyText, Text(1), Text(t)}, bot_name : Names, greeting : Greetings]
DetailAnswers(t) == UNION {[D -> DetailRows(t)] : D \in SUBSET Bots}
created_of(det) == [b \in DOMAIN det |-> det[b].created_at]

\* _upsert_bot_static, columns bot_name and greeting:
\*   bot_name = excluded.bot_name,
\*   greeting = COALESCE(excluded.greeting, bot_static.greeting)
\* where every caller passes d.get("greeting") or "", never NULL.
upsert_static_cols(sc, rows) ==
    [b \in DOMAIN sc \cup DOMAIN rows |->
        IF b \in DOMAIN rows
        THEN [bot_name |-> rows[b].bot_name, greeting |-> rows[b].greeting]
        ELSE sc[b]]

\* The authors the column model adds.
StaticAuthors == {"a1"}

\* POST /authors/add, all columns of bot_static.
authors_add_columns(author) ==
    \E S \in SUBSET Bots : \E det \in DetailAnswers(now) :
        LET r == refresh_single_result(author_bot_map, bot_static, author, S,
                                       created_of(det), now)
            ids == lookup_ids(author_bot_map, author, S)
        IN
        /\ S # {}
        /\ tracked_authors' = tracked_authors \cup {author}
        /\ author_bot_map' = r.m
        /\ bot_static' = r.bs
        /\ static_cols' = upsert_static_cols(static_cols,
                              fetch_typesense_bot_details_by_ids(det, ids))
        /\ looked_up' = ids
        /\ UNCHANGED <<now, last_refresh>>

\* POST /authors/remove, which leaves bot_static alone.
authors_remove_columns(author) ==
    /\ authors_remove(author)
    /\ looked_up' = {}
    /\ UNCHANGED <<static_cols, last_refresh>>

\* POST /authors/refresh, all columns of bot_static.
authors_refresh_columns ==
    \E poll \in [Authors -> SUBSET Bots] : \E det \in DetailAnswers(now) :
        LET r == refresh_loop([m |-> author_bot_map, bs |-> bot_static, ret |-> 0],
                              1, poll, created_of(det), now)
            ids == UNION {lookup_ids(author_bot_map, a, poll[a]) : a \in tracked_authors}
        IN
        /\ tracked_authors # {}
        /\ \A a \in Authors \ tracked_authors : poll[a] = {}
        /\ author_bot_map' = r.m
        /\ bot_static' = r.bs
        /\ static_cols' = upsert_static_cols(static_cols,
                              fetch_typesense_bot_details_by_ids(det, ids))
        /\ looked_up' = ids
        /\ UNCHANGED <<tracked_authors, now, last_refresh>>

\* get_bot_greeting: the stored greeting if there is one; otherwise a detail
\* lookup of the id and, when it answers with a greeting, an upsert of the row.
get_bot_greeting(bot_id) ==
    \E det \in DetailAnswers(now) :
        LET details == fetch_typesense_bot_details_by_ids(det, {bot_id}) IN
        /\ IF bot_id \in DOMAIN static_cols /\ static_cols[bot_id].greeting # ""
           THEN /\ looked_up' = {}
                /\ UNCHANGED <<bot_static, static_cols>>
           ELSE /\ looked_up' = {bot_id}
                /\ IF bot_id \in DOMAIN details /\ details[bot_id].greeting # ""
                   THEN /\ bot_static' = upsert_bot_static(bot_static, created_of(details))
                        /\ static_cols' = upsert_static_cols(static_cols, details)
                   ELSE UNCHANGED <<bot_static, static_cols>>
        /\ UNCHANGED <<tracked_authors, author_bot_map, now, last_refresh>>

NextStatic ==
    /\ \/ \E author \in StaticAuthors : authors_add_columns(author)
       \/ \E author \in StaticAuthors : authors_remove_columns(author)
       \/ authors_refresh_columns
       \/ \E bot_id \in Bots : get_bot_greeting(bot_id)
    /\ UNCHANGED <<snapVars, viewVars, searchVars, fetchVars, cacheVars, threads, given,
                   upstreamVars, sideVars>>

SpecStatic == Init /\ [][NextStatic]_vars

\* C32: once the bot_static row of an id is populated, no later operation
\* (a refresh, removing and re-adding a category, a greeting lookup) issues
\* another detail lookup for that id, and none changes the stored name or
\* creation time of the row.
C32_PopulatedRowsFinal ==
    [][\A b \in DOMAIN bot_static :
          /\ b \notin looked_up'
          /\ b \in DOMAIN bot_static'
          /\ bot_static'[b].created_at = bot_static[b].created_at
          /\ static_cols'[b].bot_name = static_cols[b].bot_name]_vars

\* ------------------------------------------------ refreshes, with a record

\* What a refresh of the authors As that polls poll and is answered det leaves
\* in last_refresh: the polls, the creation times the lookup answers with, and
\* the count refresh_single_author_snapshot returns for each author.
refresh_record(As, poll, det) ==
    [authors |-> As,
     polled |-> [a \in Authors |-> IF a \in As THEN poll[a] ELSE {}],
     det |-> det,
     ret |-> [a \in Authors |->
                IF a \in As
                THEN refresh_single_result(author_bot_map, bot_static, a, poll[a],
                                           det, now).ret
                ELSE 0]]

\* POST /authors/add; det is what a detail lookup answers for the ids asked.
authors_add_recorded(author) ==
    \E S \in SUBSET Bots : \E det \in DetailsResults(Bots, now) :
        LET r == refresh_single_result(author_bot_map, bot_static, author, S, det, now) IN
        /\ S # {}
        /\ tracked_authors' = tracked_authors \cup {author}
        /\ author_bot_map' = r.m
        /\ bot_static' = r.bs
        /\ last_refresh' = refresh_record({author}, [a \in Authors |-> S], det)
        /\ UNCHANGED now

\* POST /authors/refresh.
authors_refresh_recorded ==
    \E poll \in [Authors -> SUBSET Bots] : \E det \in DetailsResults(Bots, now) :
        LET r == refresh_loop([m |-> author_bot_map, bs |-> bot_static, ret |-> 0],
                              1, poll, det, now) IN
        /\ tracked_authors # {}
        /\ \A a \in Authors \ tracked_authors : poll[a] = {}
        /\ author_bot_map' = r.m
        /\ bot_static' = r.bs
        /\ last_refresh' = refresh_record(tracked_authors, poll, det)
        /\ UNCHANGED <<tracked_authors, now>>

NextRefresh ==
    /\ \/ \E author \in StaticAuthors : authors_add_recorded(author)
       \/ authors_refresh_recorded
       \/ /\ \/ \E author \in StaticAuthors : authors_remove(author)
             \/ \E bot_id \in Bots : go_bot(bot_id)
             \/ \E sel \in StaticAuthors \cup {ALL_KEY} : authors_mark_all_seen(sel)
          /\ UNCHANGED last_refresh
    /\ UNCHANGED <<snapVars, viewVars, searchVars, fetchVars, cacheVars, threads,
                   given, static_cols, looked_up, upstreamVars, sideVars>>

SpecRefresh == Init /\ [][NextRefresh]_vars

\* The author map and bot_static hold rows of earlier runs.
InitAcked ==
    /\ tracked_authors = StaticAuthors
    /\ author_bot_map \in UNION {[D -> StoredRows] : D \in SUBSET (StaticAuthors \X Bots)}
    /\ bot_static \in UNION {[D -> [created_at : {EmptyText, Text(1)}]] : D \in SUBSET Bots}
    /\ now = 1
    /\ InitSnapshot
    /\ InitView
    /\ InitExt

SpecAcked == InitAcked /\ [][NextRefresh]_vars

\* C31: once a row of author_bot_map is acknowledged (seen_at set), no refresh
\* makes it unseen or new again, whether or not the poll lists its id: the
\* row stays, seen_at stays set, first_seen_at is unchanged, and the count the
\* refresh returns counts only polled ids that had no row.
C31_AckedStaysAcked ==
    [][/\ \A k \in DOMAIN author_bot_map :
            ~Blank(author_bot_map[k].seen_at) /\ k[1] \in tracked_authors'
            => /\ k \in DOMAIN author_bot_map'
               /\ ~Blank(author_bot_map'[k].seen_at)
               /\ author_bot_map'[k].first_seen_at = author_bot_map[k].first_seen_at
       /\ last_refresh' # last_refresh
            => \A a \in last_refresh'.authors :
                 last_refresh'.ret[a] <=
                   Cardinality({b \in last_refresh'.polled[a] :
                                   <<a, b>> \notin DOMAIN author_bot_map})]_vars

\* A refresh polled the acknowledged b1 again and counted only the new b2.
C31_Witness ==
    /\ <<"a1", "b1">> \in DOMAIN author_bot_map
    /\ author_bot_map[<<"a1", "b1">>] = [first_seen_at |-> Text(1), seen_at |-> Text(1)]
    /\ last_refresh.authors = {"a1"}
    /\ last_refresh.polled["a1"] = Bots
    /\ last_refresh.ret["a1"] = 1

\* C35: a member of a category whose detail lookup failed in the refresh that
\* discovered it gets its bot_static row from a later refresh of the category
\* in which the lookup would succeed: after a refresh, every polled id the
\* lookup answers for has a bot_static row.
C35_LaterRefreshPopulates ==
    \A a \in last_refresh.authors :
        \A b \in last_refresh.polled[a] \cap DOMAIN last_refresh.det :
            b \in DOMAIN bot_static

\* C36: when a baseline refresh finds a stored bot_static row with a blank
\* creation time (NULL or '') and the lookup answers with a creation time, the
\* stored creation time is the fetched one after the refresh.
C36_BaselineBackfillsCreation ==
    [][last_refresh' # last_refresh =>
         \A a \in last_refresh'.authors :
            author_existing_bot_ids(author_bot_map, a) = {} =>
               \A b \in (last_refresh'.polled[a] \cap DOMAIN bot_static)
                            \cap DOMAIN last_refresh'.det :
                  Blank(bot_static[b].created_at) /\ ~Blank(last_refresh'.det[b])
                  => bot_static'[b].created_at = last_refresh'.det[b]]_vars

\* ------------------------------------------- polls of an upstream catalogue

\* The page size of the scans of the catalogue model (250 in the source).
refresh_per_page == 1

Least(i, j) == IF i <= j THEN i ELSE j
Elements(seq) == {seq[i] : i \in DOMAIN seq}

\* fetch_typesense_bot_ids_by_author over the listing of the author, when the
\* request of page fail_at comes back empty from multi_search_request (none
\* does if fail_at > mp): the loop breaks on the empty page and returns the
\* ids of the pages before it.
fetch_typesense_bot_ids_by_author(listing, mp, pp, fail_at) ==
    Elements(SubSeq(listing, 1, Least(Len(listing), pp * Least(fail_at - 1, mp))))

\* One more entity of the author appears upstream.
upstream_publish(author, b) ==
    /\ \A a \in Authors : b \notin Elements(upstream[a])
    /\ upstream' = [upstream EXCEPT ![author] = Append(@, b)]
    /\ UNCHANGED <<authorVars, now, last_refresh, at_baseline>>

\* refresh_single_author_snapshot of author against the catalogue: the poll,
\* the stores, the record, and the ids upstream if this is the baseline poll.
refresh_from_upstream(author, fail_at, det) ==
    LET S == fetch_typesense_bot_ids_by_author(upstream[author], max_pages,
                                               refresh_per_page, fail_at)
        r == refresh_single_result(author_bot_map, bot_static, author, S, det, now)
    IN
    /\ author_bot_map' = r.m
    /\ bot_static' = r.bs
    /\ last_refresh' = refresh_record({author}, [a \in Authors |-> S], det)
    /\ at_baseline' =
          IF S # {} /\ author_existing_bot_ids(author_bot_map, author) = {}
          THEN [at_baseline EXCEPT
                   ![author] = [ran |-> TRUE, ids |-> Elements(upstream[author])]]
          ELSE at_baseline

\* POST /authors/add: the existence check (one page of one id), then the
\* refresh of the author.
authors_add_upstream(author) ==
    \E fail_at \in 1..(max_pages + 1) : \E det \in DetailsResults(Bots, now) :
        /\ fetch_typesense_bot_ids_by_author(upstream[author], 1, 1, 2) # {}
        /\ tracked_authors' = tracked_authors \cup {author}
        /\ refresh_from_upstream(author, fail_at, det)
        /\ UNCHANGED <<now, upstream>>

\* POST /authors/refresh, for the tracked authors of the catalogue model.
authors_refresh_upstream(author) ==
    \E fail_at \in 1..(max_pages + 1) : \E det \in DetailsResults(Bots, now) :
        /\ tracked_authors = {author}
        /\ refresh_from_upstream(author, fail_at, det)
        /\ UNCHANGED <<tracked_authors, now, upstream>>

\* POST /authors/remove: the rows of the author go, and with them its baseline.
authors_remove_upstream(author) ==
    /\ authors_remove(author)
    /\ at_baseline' = [at_baseline EXCEPT ![author] = [ran |-> FALSE, ids |-> {}]]
    /\ UNCHANGED <<last_refresh, upstream>>

NextUpstream ==
    /\ \/ \E author \in StaticAuthors : \E b \in Bots : upstream_publish(author, b)
       \/ \E author \in StaticAuthors : authors_add_upstream(author)
       \/ \E author \in StaticAuthors : authors_refresh_upstream(author)
       \/ \E author \in StaticAuthors : authors_remove_upstream(author)
    /\ UNCHANGED <<snapVars, viewVars, searchVars, fetchVars, cacheVars, threads,
                   given, static_cols, looked_up, sideVars>>

SpecUpstream == Init /\ [][NextUpstream]_vars

\* C34: across refreshes in which page requests may fail, a refresh counts as
\* discovered only entities that first appeared upstream after the baseline
\* poll: no id it counts was upstream when the baseline poll of its author ran.
C34_CountsOnlyLaterEntities ==
    [][last_refresh' # last_refresh =>
         \A a \in last_refresh'.authors :
            last_refresh'.ret[a] > 0 =>
               \A b \in last_refresh'.polled[a] :
                  <<a, b>> \notin DOMAIN author_bot_map => b \notin at_baseline[a].ids]_vars

\* ------------------------------------------------------ snapshot_scheduler

\* The iterations of the while True loop the model follows.
MaxIterations == 3

\* A mutant in which an exception ends the loop.
after_exception_uncaught(s) == [s EXCEPT !.at = "stopped", !.running = 0]

\* except Exception as e: logging.error(...), then time.sleep(3600).
after_exception(s) == [s EXCEPT !.at = "sleep", !.running = 0]

\* The saved credentials expire, or the user logs in again.
credentials_change ==
    /\ credentials_valid' = ~credentials_valid
    /\ UNCHANGED <<sched, sched_log>>

\* bearer, guest = ensure_fresh_kinde_token(): it raises, or the pair is
\* complete exactly if the credentials are valid; take_snapshot({}) is called
\* in the else branch.
scheduler_check(raises) ==
    /\ sched.at = "check"
    /\ IF raises
       THEN /\ sched' = after_exception([sched EXCEPT !.verdict = "raised"])
            /\ sched_log' = Append(sched_log, "check_raised")
       ELSE IF ~credentials_valid
       THEN /\ sched' = [sched EXCEPT !.verdict = "invalid", !.at = "sleep"]
            /\ sched_log' = Append(sched_log, "paused")
       ELSE /\ sched' = [sched EXCEPT !.verdict = "valid", !.at = "cycle",
                                      !.running = @ + 1]
            /\ UNCHANGED sched_log
    /\ UNCHANGED credentials_valid

\* take_snapshot({}) returns or raises.
scheduler_cycle_ends(raises) ==
    /\ sched.at = "cycle"
    /\ IF raises
       THEN /\ sched' = after_exception(sched)
            /\ sched_log' = Append(sched_log, "cycle_raised")
       ELSE /\ sched' = [sched EXCEPT !.at = "sleep", !.running = @ - 1]
            /\ sched_log' = Append(sched_log, "cycle")
    /\ UNCHANGED credentials_valid

\* time.sleep(3600) returns and the loop starts its next iteration.
scheduler_wakes ==
    /\ sched.at = "sleep"
    /\ sched.iteration < MaxIterations
    /\ sched' = [sched EXCEPT !.at = "check", !.iteration = @ + 1, !.verdict = "none"]
    /\ UNCHANGED <<sched_log, credentials_valid>>

SchedulerStep ==
    \/ \E raises \in BOOLEAN : scheduler_check(raises)
    \/ \E raises \in BOOLEAN : scheduler_cycle_ends(raises)
    \/ scheduler_wakes

NextScheduler ==
    /\ \/ credentials_change
       \/ \E raises \in BOOLEAN : scheduler_check(raises)
       \/ \E raises \in BOOLEAN : scheduler_cycle_ends(raises)
       \/ scheduler_wakes
    /\ UNCHANGED <<authorVars, snapVars, now, viewVars, searchVars, fetchVars, cacheVars,
                   threads, given, trackVars, upstreamVars, captureVars, writeVars>>

\* The scheduler thread is always scheduled again.
SpecScheduler ==
    Init /\ [][NextScheduler]_vars /\ WF_<<sched, sched_log>>(SchedulerStep)

\* C37: the scheduler loop never stops: an exception of the credential check
\* or of the cycle is caught and the iteration ends in the sleep, from which
\* the next iteration starts; an iteration that finds the credentials invalid
\* runs no cycle and one that finds them valid runs one; at most one cycle of
\* the scheduler runs at a time.
C37_SchedulerGoesOn ==
    /\ [](/\ sched.at \in {"check", "cycle", "sleep"}
          /\ sched.running <= 1
          /\ sched.running = 1 <=> sched.at = "cycle"
          /\ sched.at = "cycle" => sched.verdict = "valid"
          /\ sched.at = "sleep" =>
                /\ Len(sched_log) = sched.iteration
                /\ sched.verdict = "invalid" <=> sched_log[sched.iteration] = "paused"
                /\ sched.verdict = "valid" <=>
                      sched_log[sched.iteration] \in {"cycle", "cycle_raised"})
    /\ [][sched.at = "check" /\ sched' # sched =>
             IF sched'.verdict = "raised" THEN sched'.at = "sleep"
             ELSE IF credentials_valid
                  THEN sched'.at = "cycle" /\ sched'.verdict = "valid"
                  ELSE sched'.at = "sleep" /\ sched'.verdict = "invalid"]_vars
    /\ (sched.at # "sleep") ~> (sched.at = "sleep")
    /\ (sched.at = "sleep" /\ sched.iteration < MaxIterations) ~> (sched.at = "check")

\* The first iteration's cycle raised, the second found the credentials
\* invalid, and the third, the first to find them valid again, runs a cycle.
C37_Witness ==
    /\ sched_log = <<"cycle_raised", "paused">>
    /\ sched.iteration = 3
    /\ sched.at = "cycle"

\* ------------------------------------------------ capture_auth_credentials

\* How a call that holds the lock ends: with the saved credentials, which are
\* still valid; with captured credentials; with the RuntimeError of the
\* timeout; with any other exception.
Exits == {"valid", "success", "timeout", "exception"}

\* A mutant that releases the lock only where the function returns.
release_on_return(exit) == exit \notin {"valid", "success"}

\* finally: AUTH_CAPTURE_LOCK.release(); the lock is held afterwards?
release(exit) == FALSE

\* A request thread calls capture_auth_credentials:
\* if not AUTH_CAPTURE_LOCK.acquire(blocking=False): raise RuntimeError(...)
capture_call(c) ==
    /\ capture[c].at = "idle"
    /\ IF AUTH_CAPTURE_LOCK
       THEN /\ capture' = [capture EXCEPT ![c] = [at |-> "idle", outcome |-> "locked"]]
            /\ UNCHANGED AUTH_CAPTURE_LOCK
       ELSE /\ capture' = [capture EXCEPT ![c] = [at |-> "saved", outcome |-> "none"]]
            /\ AUTH_CAPTURE_LOCK' = TRUE

\* load_auth_credentials and test_auth_credentials: the saved credentials are
\* returned, or the browser is launched, or an exception leaves the function.
capture_saved(c, exit) ==
    /\ capture[c].at = "saved"
    /\ exit \in {"valid", "exception", "none"}
    /\ IF exit = "none"
       THEN /\ capture' = [capture EXCEPT ![c].at = "browser"]
            /\ UNCHANGED AUTH_CAPTURE_LOCK
       ELSE /\ capture' = [capture EXCEPT ![c] = [at |-> "idle", outcome |-> exit]]
            /\ AUTH_CAPTURE_LOCK' = release(exit)

\* The browser session ends: both headers were captured and saved, or the
\* deadline passed, or an exception left the with block.
capture_browser(c, exit) ==
    /\ capture[c].at = "browser"
    /\ exit \in {"success", "timeout", "exception"}
    /\ capture' = [capture EXCEPT ![c] = [at |-> "idle", outcome |-> exit]]
    /\ AUTH_CAPTURE_LOCK' = release(exit)

NextCapture ==
    /\ \/ \E c \in Callers : capture_call(c)
       \/ \E c \in Callers : \E exit \in Exits \cup {"none"} : capture_saved(c, exit)
       \/ \E c \in Callers : \E exit \in Exits : capture_browser(c, exit)
    /\ UNCHANGED <<authorVars, snapVars, now, viewVars, searchVars, fetchVars, cacheVars,
                   threads, given, trackVars, upstreamVars, schedVars, writeVars>>

SpecCapture == Init /\ [][NextCapture]_vars

\* The callers inside capture_auth_credentials, past the acquire.
capturing == {c \in Callers : capture[c].at # "idle"}

\* C38: at most one capture_auth_credentials runs at a time: a call made while
\* another call holds AUTH_CAPTURE_LOCK fails at once with an error and starts
\* no capture, and the lock is released on every exit path, so it is held
\* exactly while a call is inside.
C38_OneCaptureAtATime ==
    /\ [](/\ Cardinality(capturing) <= 1
          /\ AUTH_CAPTURE_LOCK <=> capturing # {})
    /\ [][\A c \in Callers :
             capture[c].at = "idle" /\ AUTH_CAPTURE_LOCK =>
                /\ capture'[c].at = "idle"
                /\ capture'[c] # capture[c] => capture'[c].outcome = "locked"]_vars

\* r1 left by the timeout and r2 by an exception; r3 then got the lock and is
\* in the browser session, and r1's next call failed on the held lock.
C38_Witness ==
    /\ capture["r3"].at = "browser"
    /\ capture["r1"] = [at |-> "idle", outcome |-> "locked"]
    /\ capture["r2"] = [at |-> "idle", outcome |-> "exception"]
    /\ AUTH_CAPTURE_LOCK

\* ------------------------------------- overlapping writes of the bots table

\* The period both cycles write (they run on the same day).
Period == 1

\* The rows_clean of a cycle: one row per bot of a listing, all with the count
\* the cycle fetched.
WriterRows ==
    {[j \in 1..Len(l) |-> [date |-> Period, bot_id |-> l[j], num_messages |-> n]] :
        l \in Listings, n \in 1..MaxCount}
RowSet(rs) == {rs[j] : j \in 1..Len(rs)}

\* A mutant in which every statement is committed as it is executed.
after_statement_autocommit(table, tx) == tx

\* What the other connections read after a statement of an open transaction:
\* the committed table.
after_statement(table, tx) == table

\* take_snapshot of thread th reaches `with sqlite3.connect(DATABASE) as conn`
\* with its rows_clean; met tells whether the write of another thread is
\* under way.
db_open(th, rs) ==
    /\ writers[th].at = "idle"
    /\ writers' = [writers EXCEPT ![th] =
                       [at |-> "delete", rows |-> rs, i |-> 1, txn |-> {},
                        met |-> \E o \in Threads \ {th} :
                                   writers[o].at \in {"delete", "insert"}]]
    /\ UNCHANGED <<bots, db>>

\* c.execute("DELETE FROM bots WHERE date = ?"): the statement opens the
\* transaction and takes the write lock; while another connection holds it,
\* the statement waits, and raises OperationalError when the wait times out.
db_delete(th, times_out) ==
    /\ writers[th].at = "delete"
    /\ IF db.lock = "none"
       THEN /\ writers' = [writers EXCEPT ![th].at = "insert",
                                          ![th].txn = txn_delete(bots, Period)]
            /\ db' = [db EXCEPT !.lock = th]
            /\ bots' = after_statement(bots, txn_delete(bots, Period))
       ELSE /\ times_out
            /\ writers' = [writers EXCEPT ![th].at = "failed"]
            /\ UNCHANGED <<bots, db>>

\* One c.execute(INSERT ...) of the loop; an exception leaves the with block,
\* which rolls the transaction back.
db_insert(th, raises) ==
    /\ writers[th].at = "insert"
    /\ writers[th].i <= Len(writers[th].rows)
    /\ LET row == writers[th].rows[writers[th].i] IN
       IF raises \/ \E r \in writers[th].txn : r.date = row.date /\ r.bot_id = row.bot_id
       THEN /\ writers' = [writers EXCEPT ![th].at = "failed", ![th].txn = {}]
            /\ db' = [db EXCEPT !.lock = "none"]
            /\ bots' = rollback(bots, writers[th].txn)
       ELSE /\ writers' = [writers EXCEPT ![th].txn = @ \cup {row}, ![th].i = @ + 1]
            /\ bots' = after_statement(bots, writers[th].txn \cup {row})
            /\ UNCHANGED db

\* conn.commit()
db_commit(th) ==
    /\ writers[th].at = "insert"
    /\ writers[th].i > Len(writers[th].rows)
    /\ bots' = writers[th].txn
    /\ writers' = [writers EXCEPT ![th].at = "done", ![th].txn = {}]
    /\ db' = [db EXCEPT !.lock = "none"]

NextOverlap ==
    /\ \/ \E th \in Threads : \E rs \in WriterRows : db_open(th, rs)
       \/ \E th \in Threads : \E times_out \in BOOLEAN : db_delete(th, times_out)
       \/ \E th \in Threads : \E raises \in BOOLEAN : db_insert(th, raises)
       \/ \E th \in Threads : db_commit(th)
    /\ UNCHANGED <<authorVars, now, last_snapshot, AUTH_REQUIRED, pc, attempt, stamp,
                   payload, rows_clean, txn, fetch, raised, stages, failed,
                   bot_rank_history, core_AUTH_REQUIRED, caller, viewVars, searchVars,
                   fetchVars, cacheVars, threads, given, trackVars, upstreamVars,
                   schedVars, captureVars>>

\* An earlier cycle has written the period.
InitOverlap ==
    /\ tracked_authors = {}
    /\ author_bot_map = << >>
    /\ bot_static = << >>
    /\ now = 1
    /\ \E rs \in WriterRows : bots = RowSet(rs)
    /\ InitCycle
    /\ InitView
    /\ InitSearch
    /\ InitFetch
    /\ InitCaches
    /\ InitThreads
    /\ given = [cache |-> "none", keys |-> {}]
    /\ static_cols = << >>
    /\ looked_up = {}
    /\ last_refresh = [authors |-> {}, polled |-> [a \in Authors |-> {}],
                       det |-> << >>, ret |-> [a \in Authors |-> 0]]
    /\ upstream = [a \in Authors |-> << >>]
    /\ at_baseline = [a \in Authors |-> [ran |-> FALSE, ids |-> {}]]
    /\ sched = [at |-> "check", iteration |-> 1, verdict |-> "none", running |-> 0]
    /\ sched_log = << >>
    /\ credentials_valid = FALSE
    /\ AUTH_CAPTURE_LOCK = FALSE
    /\ capture = [c \in Callers |-> [at |-> "idle", outcome |-> "none"]]
    /\ writers = [th \in Threads |->
                    [at |-> "idle", rows |-> << >>, i |-> 1, txn |-> {}, met |-> FALSE]]
    /\ db = [lock |-> "none", before |-> bots]

SpecOverlap == InitOverlap /\ [][NextOverlap]_vars

\* The threads whose write has committed.
committed == {th \in Threads : writers[th].at = "done"}

\* C33: when two cycles of the same period overlap, the rows of the period in
\* bots are at every moment the rows an earlier cycle left or exactly the rows
\* of one cycle that has committed, never a mixture and never a partly deleted
\* period; once both have finished and one has committed, they are exactly
\* the rows of a committed one.
C33_RowsOfOneCycle ==
    /\ \/ bots = db.before
       \/ \E th \in committed : bots = RowSet(writers[th].rows)
    /\ (committed # {} /\ \A th \in Threads : writers[th].at \in {"done", "failed"})
          => \E th \in committed : bots = RowSet(writers[th].rows)

\* Both cycles have committed overlapping writes of different rows, and the
\* period holds the rows of the request thread's cycle.
C33_Witness ==
    /\ committed = Threads
    /\ writers["request"].met
    /\ RowSet(writers["scheduler"].rows) =
          {[date |-> Period, bot_id |-> "b1", num_messages |-> 1]}
    /\ Len(writers["request"].rows) = 2
    /\ writers["request"].rows[1].num_messages = 2
    /\ bots = RowSet(writers["request"].rows)

====
